---- MODULE Spec2Model ----
(***************************************************************************)
(* Voice lifecycle of the SuperCollider OSC MCP server (src/server.py).    *)
(*                                                                         *)
(* One behaviour is one tool invocation on the shared sc_client.  Every    *)
(* sc_client.send_message and every time.sleep of a tool body is one step. *)
(* Times are integers in milliseconds; a requested wait is kept as an      *)
(* exact fraction <<num, den>> of milliseconds (the code computes it in    *)
(* floating point).  live and sent are the engine-side view of the         *)
(* commands sent so far: they are written only by the three send           *)
(* operators and never read by a tool body.                                *)
(***************************************************************************)
EXTENDS Integers, Sequences, FiniteSets, TLC

VARIABLES
    tool,      \* the tool body that is running ("idle" before the call)
    pc,        \* the statement the tool body is about to execute
    args,      \* the tool's arguments after validation and clamping
    loc,       \* the tool's local variables
    now,       \* the wall clock, time.time(), in ms
    live,      \* ids with a /s_new sent and no /n_free sent since
    sent,      \* per id, how many /s_new, /n_set and /n_free were sent
    slept,     \* the wait requested by the latest time.sleep, <<num, den>> ms
    exc,       \* an exception is propagating through a finally block
    outcome,   \* "running", "returned", "raised" or "error" (error string returned)
    cancel_requested   \* the caller has asked for the running invocation to be cancelled

vars == <<tool, pc, args, loc, now, live, sent, slept, exc, outcome, cancel_requested>>

----------------------------------------------------------------------------
(* Arithmetic helpers *)

Min(a, b) == IF a < b THEN a ELSE b

Max(a, b) == IF a > b THEN a ELSE b

\* variant of Clamp: the upper bound is not applied
Clamp_no_upper(lo, hi, x) == Max(lo, x)

\* max(lo, min(hi, x)), the clamp every tool applies to its numeric arguments
Clamp(lo, hi, x) == Max(lo, Min(hi, x))

\* the number of ms the clock must at least advance for a wait of q = <<num, den>> ms
CeilMs(q) == (q[1] + q[2] - 1) \div q[2]

RECURSIVE GCD(_, _)
GCD(a, b) == IF b = 0 THEN a ELSE GCD(b, a % b)

\* a fraction in lowest terms
Reduced(q) == LET g == GCD(q[1], q[2]) IN <<q[1] \div g, q[2] \div g>>

\* the sum of two fractions, in lowest terms
QAdd(a, b) ==
    LET x == Reduced(a)
        y == Reduced(b)
    IN Reduced(<<x[1] * y[2] + y[1] * x[2], x[2] * y[2]>>)

\* equality of two fractions
QEq(a, b) == Reduced(a) = Reduced(b)

\* n whole milliseconds as a fraction
Ms(n) == <<n, 1>>

Cnt(bag, id) == IF id \in DOMAIN bag THEN bag[id] ELSE 0

Inc(bag, id) == IF id \in DOMAIN bag THEN [bag EXCEPT ![id] = @ + 1] ELSE bag @@ (id :> 1)

RECURSIVE SumBag(_)
SumBag(bag) ==
    IF DOMAIN bag = {} THEN 0
    ELSE LET id == CHOOSE i \in DOMAIN bag : TRUE
         IN bag[id] + SumBag([i \in DOMAIN bag \ {id} |-> bag[i]])

EmptyBag == [i \in {} |-> 0]

----------------------------------------------------------------------------
(* Bounds of the model *)

\* how much longer than requested a time.sleep may take, in ms
JitterMs == 30

\* the clock samples at which an invocation may start: they give the base ids
\* 1000 (the lowest) and 10999 (the highest)
StartClocks == {0, 99990}

----------------------------------------------------------------------------
(* The voice id allocator and the three commands *)

\* variant of get_node_id: the ids wrap every 10 s
get_node_id_mod_1000(t) == ((t \div 10) % 1000) + 1000

\* get_node_id: int(time.time() * 100) % 10000 + 1000
get_node_id(t) == ((t \div 10) % 10000) + 1000

\* sc_client.send_message("/s_new", [..., id, ...])
SendNew(id) ==
    /\ live' = live \cup {id}
    /\ sent' = [sent EXCEPT !.new = Inc(@, id)]

\* sc_client.send_message("/n_set", [id, ...])
SendSet(id) ==
    /\ live' = live
    /\ sent' = [sent EXCEPT !.set = Inc(@, id)]

\* sc_client.send_message("/n_free", [id])
SendFree(id) ==
    /\ live' = live \ {id}
    /\ sent' = [sent EXCEPT !.free = Inc(@, id)]

NoSend == UNCHANGED <<live, sent>>

\* time.sleep(q) in a loop that never reads the clock: the clock advances by the wait
Sleep(q) ==
    /\ now' = now + CeilMs(q)
    /\ slept' = q

\* time.sleep(q) in a deadline-driven loop: the wait may overshoot
SleepJitter(q) ==
    /\ \E j \in {0, JitterMs} : now' = now + CeilMs(q) + j
    /\ slept' = q

NoSleep == UNCHANGED <<now, slept>>

At(t, p) == tool = t /\ pc = p /\ outcome = "running"

Frame == UNCHANGED <<tool, args, exc, outcome, cancel_requested>>

\* the tool's return statement
Return ==
    /\ pc' = "done"
    /\ outcome' = "returned"
    /\ UNCHANGED <<tool, args, exc, cancel_requested>>

----------------------------------------------------------------------------
(* play_example_osc *)

Invoke_play_example_osc ==
    /\ At("idle", "idle")
    /\ tool' = "play_example_osc"
    /\ pc' = "ex_new"
    /\ args' = [none |-> 0]
    /\ loc' = [node_id |-> get_node_id(now), x |-> 0]
    /\ NoSend /\ NoSleep /\ UNCHANGED <<exc, outcome, cancel_requested>>

ex_new ==
    /\ At("play_example_osc", "ex_new")
    /\ SendNew(loc.node_id)
    /\ pc' = "ex_sleep1"
    /\ NoSleep /\ Frame /\ UNCHANGED loc

ex_sleep1 ==
    /\ At("play_example_osc", "ex_sleep1")
    /\ Sleep(Ms(1000))
    /\ pc' = "ex_set"
    /\ NoSend /\ Frame /\ UNCHANGED loc

ex_set ==
    /\ At("play_example_osc", "ex_set")
    /\ SendSet(loc.node_id)
    /\ pc' = "ex_sleep"
    /\ NoSleep /\ Frame /\ UNCHANGED loc

ex_sleep ==
    /\ At("play_example_osc", "ex_sleep")
    /\ Sleep(Ms(500))
    /\ loc' = [loc EXCEPT !.x = @ + 1]
    /\ pc' = IF loc.x + 1 < 10 THEN "ex_set" ELSE "ex_free"
    /\ NoSend /\ Frame

ex_free ==
    /\ At("play_example_osc", "ex_free")
    /\ SendFree(loc.node_id)
    /\ Return
    /\ NoSleep /\ UNCHANGED loc

----------------------------------------------------------------------------
(* play_melody *)

ScaleInputs == {"major", "pentatonic", "blues", "dorian"}

MelodyTempoInputs == {120, 300}

\* len(scales[scale])
ScaleLen(scale) ==
    CASE scale = "major" -> 8
      [] scale = "minor" -> 8
      [] scale = "pentatonic" -> 6
      [] scale = "blues" -> 7

note_count == 16

\* duration_options, in quarters of a beat
duration_options == <<1, 2, 4>>

\* the melodies random.choices may build: note i gets option ((i + k) mod 3) + 1
MelodyInputs == {[i \in 0 .. note_count - 1 |-> duration_options[((i + k) % 3) + 1]] : k \in 0 .. 2}

Invoke_play_melody ==
    /\ At("idle", "idle")
    /\ \E scale \in ScaleInputs, tempo \in MelodyTempoInputs, melody \in MelodyInputs :
        /\ args' = [scale |-> IF scale \in {"major", "minor", "pentatonic", "blues"}
                              THEN scale ELSE "major",
                    tempo |-> Clamp(60, 240, tempo)]
        /\ loc' = [synth_id |-> get_node_id(now), i |-> 0, melody |-> melody]
    /\ tool' = "play_melody"
    /\ pc' = "mel_new"
    /\ NoSend /\ NoSleep /\ UNCHANGED <<exc, outcome, cancel_requested>>

mel_new ==
    /\ At("play_melody", "mel_new")
    /\ SendNew(loc.synth_id + loc.i)
    /\ pc' = "mel_sleep"
    /\ NoSleep /\ Frame /\ UNCHANGED loc

\* duration = option * note_duration, note_duration = 60 / tempo
mel_sleep ==
    /\ At("play_melody", "mel_sleep")
    /\ Sleep(<<loc.melody[loc.i] * 60000, 4 * args.tempo>>)
    /\ pc' = "mel_free"
    /\ NoSend /\ Frame /\ UNCHANGED loc

mel_free ==
    /\ At("play_melody", "mel_free")
    /\ SendFree(loc.synth_id + loc.i)
    /\ loc' = [loc EXCEPT !.i = IF loc.i + 1 < note_count THEN @ + 1 ELSE 0]
    /\ pc' = IF loc.i + 1 < note_count THEN "mel_new" ELSE "scale_new"
    /\ NoSleep /\ Frame

scale_new ==
    /\ At("play_melody", "scale_new")
    /\ SendNew(loc.synth_id + note_count + loc.i)
    /\ pc' = "scale_sleep"
    /\ NoSleep /\ Frame /\ UNCHANGED loc

\* time.sleep(note_duration * 0.9)
scale_sleep ==
    /\ At("play_melody", "scale_sleep")
    /\ Sleep(<<60000 * 9, args.tempo * 10>>)
    /\ pc' = "scale_free"
    /\ NoSend /\ Frame /\ UNCHANGED loc

scale_free ==
    /\ At("play_melody", "scale_free")
    /\ SendFree(loc.synth_id + note_count + loc.i)
    /\ NoSleep
    /\ IF loc.i + 1 < ScaleLen(args.scale)
       THEN /\ loc' = [loc EXCEPT !.i = @ + 1]
            /\ pc' = "scale_new"
            /\ Frame
       ELSE /\ UNCHANGED loc
            /\ Return

----------------------------------------------------------------------------
(* create_drum_pattern *)

DrumPatternInputs == {"four_on_floor", "breakbeat", "random", "polka"}

DrumBeatsInputs == {2, 40}

DrumTempoInputs == {120}

\* the predefined 16-step patterns (1 = hit, 0 = rest)
patterns(pattern_type) ==
    CASE pattern_type = "four_on_floor" ->
            [kick  |-> <<1,0,0,0, 1,0,0,0, 1,0,0,0, 1,0,0,0>>,
             snare |-> <<0,0,1,0, 0,0,1,0, 0,0,1,0, 0,0,1,0>>,
             hihat |-> <<1,1,1,1, 1,1,1,1, 1,1,1,1, 1,1,1,1>>]
      [] pattern_type = "breakbeat" ->
            [kick  |-> <<1,0,0,1, 0,1,0,0, 1,0,0,1, 0,0,1,0>>,
             snare |-> <<0,0,1,0, 0,0,1,0, 0,0,1,0, 0,1,0,1>>,
             hihat |-> <<1,1,0,1, 1,0,1,1, 0,1,1,0, 1,0,1,0>>]
      [] pattern_type = "shuffle" ->
            [kick  |-> <<1,0,0,0, 1,0,0,0, 1,0,0,0, 1,0,0,0>>,
             snare |-> <<0,0,1,0, 0,0,1,0, 0,0,1,0, 0,0,1,0>>,
             hihat |-> <<1,0,1,0, 1,0,1,0, 1,0,1,0, 1,0,1,0>>]

Zeros16 == [i \in 1 .. 16 |-> 0]

Ones16 == [i \in 1 .. 16 |-> 1]

\* the 16-step rows random.choice may draw for one instrument
RandomRows == {Zeros16, Ones16, [i \in 1 .. 16 |-> IF i % 3 = 0 THEN 1 ELSE 0]}

RECURSIVE SumSeq(_)
SumSeq(s) == IF s = <<>> THEN 0 ELSE Head(s) + SumSeq(Tail(s))

\* the random pattern after "ensure at least some beats": kick[0] and snare[4] are set
random_pattern(kick, snare, hihat) ==
    [kick  |-> IF SumSeq(kick) = 0 THEN [kick EXCEPT ![1] = 1] ELSE kick,
     snare |-> IF SumSeq(snare) = 0 THEN [snare EXCEPT ![5] = 1] ELSE snare,
     hihat |-> hihat]

\* beats = max(4, min(32, int(beats)))
drum_beats(beats) == Clamp(4, 32, beats)

Invoke_create_drum_pattern ==
    /\ At("idle", "idle")
    /\ \E pattern_type \in DrumPatternInputs, beats \in DrumBeatsInputs, tempo \in DrumTempoInputs,
          kick \in RandomRows, snare \in RandomRows, hihat \in {Ones16} :
        LET ptype == IF pattern_type \in {"four_on_floor", "breakbeat", "shuffle", "random"}
                     THEN pattern_type ELSE "four_on_floor"
        IN /\ ptype # "random" => kick = Zeros16 /\ snare = Zeros16
           /\ args' = [pattern_type |-> ptype,
                       beats |-> drum_beats(beats),
                       tempo |-> Clamp(60, 240, tempo)]
           /\ loc' = [base_id |-> get_node_id(now), beat |-> 0,
                      pattern |-> IF ptype = "random" THEN random_pattern(kick, snare, hihat)
                                  ELSE patterns(ptype)]
    /\ tool' = "create_drum_pattern"
    /\ pc' = "dr_kick_new"
    /\ NoSend /\ NoSleep /\ UNCHANGED <<exc, outcome, cancel_requested>>

\* the id bands of the percussion tools
KickId(base_id, beat) == base_id + beat

\* variant of SnareId: the snare band starts 100 above the base id
SnareId_offset100(base_id, beat) == base_id + 100 + beat

SnareId(base_id, beat) == base_id + 1000 + beat

HihatId(base_id, beat) == base_id + 2000 + beat

AccentId(base_id, beat) == base_id + 3000 + beat

\* pattern[instrument][beat_idx], beat_idx = beat % 16
DrumHit(instrument) == loc.pattern[instrument][(loc.beat % 16) + 1] = 1

dr_kick_new ==
    /\ At("create_drum_pattern", "dr_kick_new")
    /\ IF DrumHit("kick") THEN SendNew(KickId(loc.base_id, loc.beat)) ELSE NoSend
    /\ pc' = "dr_snare_new"
    /\ NoSleep /\ Frame /\ UNCHANGED loc

dr_snare_new ==
    /\ At("create_drum_pattern", "dr_snare_new")
    /\ IF DrumHit("snare") THEN SendNew(SnareId(loc.base_id, loc.beat)) ELSE NoSend
    /\ pc' = "dr_hihat_new"
    /\ NoSleep /\ Frame /\ UNCHANGED loc

dr_hihat_new ==
    /\ At("create_drum_pattern", "dr_hihat_new")
    /\ IF DrumHit("hihat") THEN SendNew(HihatId(loc.base_id, loc.beat)) ELSE NoSend
    /\ pc' = "dr_sleep"
    /\ NoSleep /\ Frame /\ UNCHANGED loc

\* time.sleep(beat_duration), beat_duration = 60 / tempo
dr_sleep ==
    /\ At("create_drum_pattern", "dr_sleep")
    /\ Sleep(<<60000, args.tempo>>)
    /\ pc' = "dr_kick_free"
    /\ NoSend /\ Frame /\ UNCHANGED loc

dr_kick_free ==
    /\ At("create_drum_pattern", "dr_kick_free")
    /\ IF DrumHit("kick") THEN SendFree(KickId(loc.base_id, loc.beat)) ELSE NoSend
    /\ pc' = "dr_snare_free"
    /\ NoSleep /\ Frame /\ UNCHANGED loc

dr_snare_free ==
    /\ At("create_drum_pattern", "dr_snare_free")
    /\ IF DrumHit("snare") THEN SendFree(SnareId(loc.base_id, loc.beat)) ELSE NoSend
    /\ pc' = "dr_hihat_free"
    /\ NoSleep /\ Frame /\ UNCHANGED loc

dr_hihat_free ==
    /\ At("create_drum_pattern", "dr_hihat_free")
    /\ IF DrumHit("hihat") THEN SendFree(HihatId(loc.base_id, loc.beat)) ELSE NoSend
    /\ NoSleep
    /\ IF loc.beat + 1 < args.beats
       THEN /\ loc' = [loc EXCEPT !.beat = @ + 1]
            /\ pc' = "dr_kick_new"
            /\ Frame
       ELSE /\ UNCHANGED loc
            /\ Return

----------------------------------------------------------------------------
(* play_synth *)

\* duration argument, in ms
SynthDurationInputs == {50, 2000, 40000}

Invoke_play_synth ==
    /\ At("idle", "idle")
    /\ \E duration \in SynthDurationInputs :
        args' = [duration |-> Clamp(100, 30000, duration)]
    /\ loc' = [node_id |-> get_node_id(now)]
    /\ tool' = "play_synth"
    /\ pc' = "syn_new"
    /\ NoSend /\ NoSleep /\ UNCHANGED <<exc, outcome, cancel_requested>>

syn_new ==
    /\ At("play_synth", "syn_new")
    /\ SendNew(loc.node_id)
    /\ pc' = "syn_sleep"
    /\ NoSleep /\ Frame /\ UNCHANGED loc

syn_sleep ==
    /\ At("play_synth", "syn_sleep")
    /\ Sleep(Ms(args.duration))
    /\ pc' = "syn_free"
    /\ NoSend /\ Frame /\ UNCHANGED loc

syn_free ==
    /\ At("play_synth", "syn_free")
    /\ SendFree(loc.node_id)
    /\ Return
    /\ NoSleep /\ UNCHANGED loc

----------------------------------------------------------------------------
(* create_sequence *)

\* str.split(sep) on a string given as its sequence of characters
RECURSIVE Split(_, _)
Split(s, sep) ==
    IF s = <<>> THEN << <<>> >>
    ELSE LET rest == Split(Tail(s), sep)
         IN IF Head(s) = sep THEN << <<>> >> \o rest
            ELSE << <<Head(s)>> \o Head(rest) >> \o Tail(rest)

\* str.count(ch)
RECURSIVE CountChar(_, _)
CountChar(s, ch) ==
    IF s = <<>> THEN 0
    ELSE (IF Head(s) = ch THEN 1 ELSE 0) + CountChar(Tail(s), ch)

\* pattern.split("-") if "-" in pattern else [c for c in pattern]
SequenceNotes(pattern) ==
    IF CountChar(pattern, "-") > 0 THEN Split(pattern, "-")
    ELSE [i \in 1 .. Len(pattern) |-> <<pattern[i]>>]

\* one entry of structured_notes: a rest lasts one beat, a note duration_mod beats
\* (note_to_freq returns a positive frequency for every string, so the
\* frequency > 0 test never sends a note to the rest branch)
StructuredNote(note_str) ==
    IF note_str = <<".">> \/ note_str = <<>>
    THEN [type |-> "rest", duration_mod |-> <<1, 1>>]
    ELSE IF CountChar(note_str, "_") > 0
         THEN [type |-> "note", duration_mod |-> <<1, CountChar(note_str, "_") + 1>>]
         ELSE IF CountChar(note_str, "+") > 0
              THEN [type |-> "note", duration_mod |-> <<2 + CountChar(note_str, "+"), 2>>]
              ELSE [type |-> "note", duration_mod |-> <<1, 1>>]

structured_notes(pattern) ==
    LET notes == SequenceNotes(pattern)
    IN [i \in 1 .. Len(notes) |-> StructuredNote(notes[i])]

\* "C4-.-E4_-G4++", "CE." and "" as character sequences
SequencePatternInputs ==
    { <<"C","4","-",".","-","E","4","_","-","G","4","+","+">>,
      <<"C","E",".">>,
      <<>> }

SequenceTempoInputs == {120}

SequenceRepeatsInputs == {0, 2, 9}

Invoke_create_sequence ==
    /\ At("idle", "idle")
    /\ \E pattern \in SequencePatternInputs, tempo \in SequenceTempoInputs,
          repeats \in SequenceRepeatsInputs :
        /\ args' = [tempo |-> Clamp(60, 240, tempo), repeats |-> Clamp(1, 8, repeats)]
        /\ loc' = [base_id |-> get_node_id(now), repeat |-> 0, i |-> 0,
                   structured_notes |-> structured_notes(pattern)]
    /\ tool' = "create_sequence"
    /\ pc' = "seq_next"
    /\ NoSend /\ NoSleep /\ UNCHANGED <<exc, outcome, cancel_requested>>

\* node_id = base_id + (repeat * 100) + i
SequenceNodeId(base_id, repeat, i) == base_id + (repeat * 100) + i

\* the loop heads: for repeat in range(repeats): for i, note_data in enumerate(...)
seq_next ==
    /\ At("create_sequence", "seq_next")
    /\ NoSend /\ NoSleep
    /\ IF loc.repeat >= args.repeats
       THEN /\ Return
            /\ UNCHANGED loc
       ELSE /\ Frame
            /\ IF loc.i >= Len(loc.structured_notes)
               THEN /\ loc' = [loc EXCEPT !.repeat = @ + 1, !.i = 0]
                    /\ pc' = "seq_next"
               ELSE /\ UNCHANGED loc
                    /\ pc' = IF loc.structured_notes[loc.i + 1].type = "note"
                             THEN "seq_new" ELSE "seq_rest"

seq_new ==
    /\ At("create_sequence", "seq_new")
    /\ SendNew(SequenceNodeId(loc.base_id, loc.repeat, loc.i))
    /\ pc' = "seq_sleep"
    /\ NoSleep /\ Frame /\ UNCHANGED loc

\* time.sleep(note_data["duration"] * 0.95)
seq_sleep ==
    /\ At("create_sequence", "seq_sleep")
    /\ LET m == loc.structured_notes[loc.i + 1].duration_mod
       IN Sleep(<<60000 * m[1] * 95, args.tempo * m[2] * 100>>)
    /\ pc' = "seq_free"
    /\ NoSend /\ Frame /\ UNCHANGED loc

seq_free ==
    /\ At("create_sequence", "seq_free")
    /\ SendFree(SequenceNodeId(loc.base_id, loc.repeat, loc.i))
    /\ loc' = [loc EXCEPT !.i = @ + 1]
    /\ pc' = "seq_next"
    /\ NoSleep /\ Frame

\* a rest: time.sleep(note_data["duration"])
seq_rest ==
    /\ At("create_sequence", "seq_rest")
    /\ Sleep(<<60000, args.tempo>>)
    /\ loc' = [loc EXCEPT !.i = @ + 1]
    /\ pc' = "seq_next"
    /\ NoSend /\ Frame

----------------------------------------------------------------------------
(* create_lfo_modulation *)

\* rate argument in 1/100 Hz, duration argument in ms
LfoRateInputs == {0, 200}

LfoDurationInputs == {500}

LfoWaveformInputs == {"random", "warble"}

\* the values random.random() may return, in 1/100000 (two representatives)
RandomDraws == {0, 99999}

\* how long after taking start_time the first loop test may run, in ms
StartDelayMs == 20

\* step_time = min(0.05, cycle_time / 20.0), cycle_time = 1.0 / rate, as a fraction of ms
step_time(rate) == IF 5000 < 50 * rate THEN <<5000, rate>> ELSE <<50, 1>>

\* phase < step_time, where phase = (elapsed * rate) % 1.0 is a fraction of a cycle
\* and step_time is a number of seconds
PhaseBelowStep(elapsed, rate) ==
    LET phase == (elapsed * rate) % 100000       \* in 1/100000 cycle
        st == step_time(rate)                    \* in ms
    IN phase * st[2] < 100 * st[1]

Invoke_create_lfo_modulation ==
    /\ At("idle", "idle")
    /\ \E rate \in LfoRateInputs, duration \in LfoDurationInputs, waveform \in LfoWaveformInputs :
        args' = [rate |-> Clamp(1, 1000, rate),
                 duration |-> Clamp(1000, 60000, duration),
                 waveform |-> waveform]
    /\ loc' = [node_id |-> get_node_id(now), start_time |-> 0, end_time |-> 0,
               elapsed |-> 0, lfo_value |-> 0, lfo_bound |-> FALSE]
    /\ tool' = "create_lfo_modulation"
    /\ pc' = "lfo_new"
    /\ NoSend /\ NoSleep /\ UNCHANGED <<exc, outcome, cancel_requested>>

lfo_new ==
    /\ At("create_lfo_modulation", "lfo_new")
    /\ SendNew(loc.node_id)
    /\ pc' = "lfo_start"
    /\ NoSleep /\ Frame /\ UNCHANGED loc

\* start_time = time.time(); end_time = start_time + duration
lfo_start ==
    /\ At("create_lfo_modulation", "lfo_start")
    /\ loc' = [loc EXCEPT !.start_time = now, !.end_time = now + args.duration]
    /\ \E d \in {0, StartDelayMs} : now' = now + d
    /\ pc' = "lfo_test"
    /\ NoSend /\ Frame /\ UNCHANGED slept

\* variant of lfo_test: a tick also begins when the clock equals end_time
lfo_test_inclusive ==
    /\ At("create_lfo_modulation", "lfo_test")
    /\ IF now <= loc.end_time
       THEN /\ loc' = [loc EXCEPT !.elapsed = now - loc.start_time]
            /\ pc' = "lfo_value"
       ELSE /\ UNCHANGED loc
            /\ pc' = "lfo_finally"
    /\ NoSend /\ NoSleep /\ Frame

\* while time.time() < end_time: elapsed = time.time() - start_time
lfo_test ==
    /\ At("create_lfo_modulation", "lfo_test")
    /\ IF now < loc.end_time
       THEN /\ loc' = [loc EXCEPT !.elapsed = now - loc.start_time]
            /\ pc' = "lfo_value"
       ELSE /\ UNCHANGED loc
            /\ pc' = "lfo_finally"
    /\ NoSend /\ NoSleep /\ Frame

\* the value of the waveform at phase (both in 1/100000): triangle and square as
\* the code computes them; sine, also the default, at the nearest quarter cycle
\* (sin itself is not computed here)
Waveform(waveform, phase) ==
    CASE waveform = "triangle" ->
            IF phase < 50000 THEN phase * 2 ELSE 100000 - (phase - 50000) * 2
      [] waveform = "square" -> IF phase < 50000 THEN 100000 ELSE 0
      [] OTHER ->
            IF phase < 12500 \/ phase >= 87500 THEN 50000
            ELSE IF phase < 37500 THEN 100000
            ELSE IF phase < 62500 THEN 50000 ELSE 0

\* the waveform branch and the mapping to param_value; with waveform "random" the
\* value is drawn only when phase < step_time, and reading a value never drawn
\* raises UnboundLocalError inside the try
lfo_value ==
    /\ At("create_lfo_modulation", "lfo_value")
    /\ NoSend /\ NoSleep /\ UNCHANGED <<tool, args, outcome, cancel_requested>>
    /\ IF args.waveform = "random"
       THEN IF PhaseBelowStep(loc.elapsed, args.rate)
            THEN /\ \E r \in RandomDraws :
                    loc' = [loc EXCEPT !.lfo_value = r, !.lfo_bound = TRUE]
                 /\ pc' = "lfo_set"
                 /\ UNCHANGED exc
            ELSE /\ UNCHANGED loc
                 /\ IF ~loc.lfo_bound
                    THEN pc' = "lfo_finally" /\ exc' = TRUE
                    ELSE pc' = "lfo_set" /\ UNCHANGED exc
       ELSE /\ loc' = [loc EXCEPT !.lfo_bound = TRUE,
                          !.lfo_value = Waveform(args.waveform, (loc.elapsed * args.rate) % 100000)]
            /\ pc' = "lfo_set"
            /\ UNCHANGED exc

lfo_set ==
    /\ At("create_lfo_modulation", "lfo_set")
    /\ SendSet(loc.node_id)
    /\ pc' = "lfo_sleep"
    /\ NoSleep /\ Frame /\ UNCHANGED loc

lfo_sleep ==
    /\ At("create_lfo_modulation", "lfo_sleep")
    /\ SleepJitter(step_time(args.rate))
    /\ pc' = "lfo_test"
    /\ NoSend /\ Frame /\ UNCHANGED loc

\* the end of a finally block: the pending exception propagates, else the tool returns
EndFinally ==
    /\ pc' = "done"
    /\ outcome' = IF exc THEN "raised" ELSE "returned"
    /\ UNCHANGED <<tool, args, exc, cancel_requested>>

\* finally: sc_client.send_message("/n_free", [node_id])
lfo_finally ==
    /\ At("create_lfo_modulation", "lfo_finally")
    /\ SendFree(loc.node_id)
    /\ EndFinally
    /\ NoSleep /\ UNCHANGED loc

----------------------------------------------------------------------------
(* create_layered_synth *)

LayersInputs == {0, 3, 7}

LayeredDurationInputs == {500}

Invoke_create_layered_synth ==
    /\ At("idle", "idle")
    /\ \E num_layers \in LayersInputs, duration \in LayeredDurationInputs :
        args' = [num_layers |-> Clamp(1, 5, num_layers),
                 duration |-> Clamp(1000, 30000, duration)]
    /\ loc' = [base_id |-> get_node_id(now), i |-> 0, nodes |-> <<>>, k |-> 1]
    /\ tool' = "create_layered_synth"
    /\ pc' = "lay_new"
    /\ NoSend /\ NoSleep /\ UNCHANGED <<exc, outcome, cancel_requested>>

\* send /s_new for node_id = base_id + i, then nodes.append(node_id)
lay_new ==
    /\ At("create_layered_synth", "lay_new")
    /\ SendNew(loc.base_id + loc.i)
    /\ loc' = [loc EXCEPT !.nodes = Append(@, loc.base_id + loc.i), !.i = @ + 1]
    /\ pc' = IF loc.i + 1 < args.num_layers THEN "lay_new" ELSE "lay_sleep"
    /\ NoSleep /\ Frame

lay_sleep ==
    /\ At("create_layered_synth", "lay_sleep")
    /\ Sleep(Ms(args.duration))
    /\ pc' = "lay_finally"
    /\ NoSend /\ Frame /\ UNCHANGED loc

\* finally: for node_id in nodes: send /n_free
lay_finally ==
    /\ At("create_layered_synth", "lay_finally")
    /\ NoSleep
    /\ IF loc.k <= Len(loc.nodes)
       THEN /\ SendFree(loc.nodes[loc.k])
            /\ loc' = [loc EXCEPT !.k = @ + 1]
            /\ pc' = "lay_finally"
            /\ Frame
       ELSE /\ NoSend
            /\ UNCHANGED loc
            /\ EndFinally

----------------------------------------------------------------------------
(* create_granular_texture *)

\* density in tenths, grain_size and duration in ms, pitch_spread in thousandths
DensityInputs == {0, 10}

GrainSizeInputs == {5, 100}

PitchSpreadInputs == {0, 500}

GranularDurationInputs == {500}

\* variant of grain_interval: ten grains per second at full density
grain_interval_per_10(density) == <<1000, density>>

\* grain_interval = 1.0 / (density * 20), in ms
grain_interval(density) == <<500, density>>

\* actual_grain_size = grain_size * (1.2 - density * 0.2), in 1/100 ms
actual_grain_size(grain_size, density) == grain_size * (120 - 2 * density)

Invoke_create_granular_texture ==
    /\ At("idle", "idle")
    /\ \E density \in DensityInputs, grain_size \in GrainSizeInputs,
          pitch_spread \in PitchSpreadInputs, duration \in GranularDurationInputs :
        /\ args' = [density |-> Clamp(1, 10, density),
                    grain_size |-> Clamp(10, 500, grain_size),
                    pitch_spread |-> Clamp(0, 1000, pitch_spread),
                    duration |-> Clamp(1000, 30000, duration)]
        /\ loc' = [start_time |-> now, end_time |-> now + Clamp(1000, 30000, duration),
                   active_nodes |-> <<>>, next_node_id |-> get_node_id(now),
                   grain_id |-> 0, expired_grains |-> <<>>, k |-> 1]
    /\ tool' = "create_granular_texture"
    /\ pc' = "gr_test"
    /\ NoSend /\ NoSleep /\ UNCHANGED <<exc, outcome, cancel_requested>>

\* while time.time() < end_time: grain_id = next_node_id; next_node_id += 1
gr_test ==
    /\ At("create_granular_texture", "gr_test")
    /\ IF now < loc.end_time
       THEN /\ loc' = [loc EXCEPT !.grain_id = loc.next_node_id, !.next_node_id = @ + 1]
            /\ pc' = "gr_amp"
       ELSE /\ loc' = [loc EXCEPT !.k = 1]
            /\ pc' = "gr_finally"
    /\ NoSend /\ NoSleep /\ Frame

\* amp_factor = 1.0 - (abs(pitch_variation - 1.0) / pitch_spread) * 0.5 divides by
\* pitch_spread: ZeroDivisionError inside the try when it is 0.0
gr_amp ==
    /\ At("create_granular_texture", "gr_amp")
    /\ IF args.pitch_spread = 0
       THEN /\ pc' = "gr_finally"
            /\ exc' = TRUE
            /\ loc' = [loc EXCEPT !.k = 1]
       ELSE /\ pc' = "gr_new"
            /\ UNCHANGED <<exc, loc>>
    /\ NoSend /\ NoSleep /\ UNCHANGED <<tool, args, outcome, cancel_requested>>

\* variant of Expired: a grain expires only when its end time is in the past
Expired_strict(active_nodes, t) ==
    SelectSeq(active_nodes, LAMBDA g : g.end_time < 100 * t)

\* the keys of active_nodes whose end_time <= t (t in ms, end times in 1/100 ms)
Expired(active_nodes, t) ==
    SelectSeq(active_nodes, LAMBDA g : g.end_time <= 100 * t)

\* send /s_new; active_nodes[grain_id] = time.time() + actual_grain_size;
\* expired_grains = [nid for nid, end_time in active_nodes.items() if end_time <= current_time]
gr_new ==
    /\ At("create_granular_texture", "gr_new")
    /\ SendNew(loc.grain_id)
    /\ LET grain == [nid |-> loc.grain_id,
                     end_time |-> 100 * now + actual_grain_size(args.grain_size, args.density)]
           tracked == Append(loc.active_nodes, grain)
       IN loc' = [loc EXCEPT !.active_nodes = tracked,
                             !.expired_grains = Expired(tracked, now)]
    /\ pc' = "gr_expire"
    /\ NoSleep /\ Frame

\* for nid in expired_grains: send /n_free; del active_nodes[nid]
gr_expire ==
    /\ At("create_granular_texture", "gr_expire")
    /\ NoSleep /\ Frame
    /\ IF loc.expired_grains # <<>>
       THEN LET nid == Head(loc.expired_grains).nid
            IN /\ SendFree(nid)
               /\ loc' = [loc EXCEPT !.expired_grains = Tail(@),
                                     !.active_nodes = SelectSeq(@, LAMBDA g : g.nid # nid)]
               /\ pc' = "gr_expire"
       ELSE /\ NoSend
            /\ UNCHANGED loc
            /\ pc' = "gr_sleep"

gr_sleep ==
    /\ At("create_granular_texture", "gr_sleep")
    /\ SleepJitter(grain_interval(args.density))
    /\ pc' = "gr_test"
    /\ NoSend /\ Frame /\ UNCHANGED loc

\* finally: for node_id in active_nodes: send /n_free
gr_finally ==
    /\ At("create_granular_texture", "gr_finally")
    /\ NoSleep
    /\ IF loc.k <= Len(loc.active_nodes)
       THEN /\ SendFree(loc.active_nodes[loc.k].nid)
            /\ loc' = [loc EXCEPT !.k = @ + 1]
            /\ pc' = "gr_finally"
            /\ Frame
       ELSE /\ NoSend
            /\ UNCHANGED loc
            /\ EndFinally

----------------------------------------------------------------------------
(* create_chord_progression *)

\* chord_types: the intervals of a chord quality, given as its characters;
\* chord_types.get(chord_type, chord_types[""]) defaults to the major triad
chord_types(chord_type) ==
    CASE chord_type = <<>> -> <<0, 4, 7>>
      [] chord_type = <<"M">> -> <<0, 4, 7>>
      [] chord_type = <<"m","a","j">> -> <<0, 4, 7>>
      [] chord_type = <<"m">> -> <<0, 3, 7>>
      [] chord_type = <<"m","i","n">> -> <<0, 3, 7>>
      [] chord_type = <<"7">> -> <<0, 4, 7, 10>>
      [] chord_type = <<"M","7">> -> <<0, 4, 7, 11>>
      [] chord_type = <<"m","a","j","7">> -> <<0, 4, 7, 11>>
      [] chord_type = <<"m","7">> -> <<0, 3, 7, 10>>
      [] chord_type = <<"m","i","n","7">> -> <<0, 3, 7, 10>>
      [] chord_type = <<"d","i","m">> -> <<0, 3, 6>>
      [] chord_type = <<"d","i","m","7">> -> <<0, 3, 6, 9>>
      [] chord_type = <<"a","u","g">> -> <<0, 4, 8>>
      [] chord_type = <<"s","u","s","2">> -> <<0, 2, 7>>
      [] chord_type = <<"s","u","s","4">> -> <<0, 5, 7>>
      [] chord_type = <<"a","d","d","9">> -> <<0, 4, 7, 14>>
      [] chord_type = <<"a","d","d","1","1">> -> <<0, 4, 7, 17>>
      [] chord_type = <<"5">> -> <<0, 7>>
      [] OTHER -> <<0, 4, 7>>

\* note_to_semitone of create_chord_progression, keyed by the characters of the name
note_to_semitone ==
    (<<"C">> :> 0) @@ (<<"C","#">> :> 1) @@ (<<"D","b">> :> 1) @@ (<<"D">> :> 2) @@
    (<<"D","#">> :> 3) @@ (<<"E","b">> :> 3) @@ (<<"E">> :> 4) @@ (<<"F">> :> 5) @@
    (<<"F","#">> :> 6) @@ (<<"G","b">> :> 6) @@ (<<"G">> :> 7) @@ (<<"G","#">> :> 8) @@
    (<<"A","b">> :> 8) @@ (<<"A">> :> 9) @@ (<<"A","#">> :> 10) @@ (<<"B","b">> :> 10) @@
    (<<"B">> :> 11)

\* variant of ParseChord: the root is always the first character
ParseChord_one_char(chord_name) ==
    [root_note |-> SubSeq(chord_name, 1, 1),
     chord_type |-> SubSeq(chord_name, 2, Len(chord_name))]

\* the root_note / chord_type split of one chord token (a non-empty character sequence)
ParseChord(chord_name) ==
    IF Len(chord_name) >= 2 /\ SubSeq(chord_name, 1, 2) \in DOMAIN note_to_semitone
    THEN [root_note |-> SubSeq(chord_name, 1, 2),
          chord_type |-> SubSeq(chord_name, 3, Len(chord_name))]
    ELSE [root_note |-> SubSeq(chord_name, 1, 1),
          chord_type |-> SubSeq(chord_name, 2, Len(chord_name))]

\* the intervals voiced for a token, <<>> when the token is empty or its root unknown
ChordIntervals(chord_name) ==
    IF chord_name = <<>> THEN <<>>
    ELSE LET c == ParseChord(chord_name)
         IN IF c.root_note \in DOMAIN note_to_semitone THEN chord_types(c.chord_type)
            ELSE <<>>

\* which block of the if/elif chain on style runs
StyleBranch(style) ==
    IF style \in {"pad", "staccato", "arpeggio", "power"} THEN style ELSE "else"

\* the positions in intervals that the branch voices: power keeps the root and the
\* fifth when present, every other branch voices all of them
VoicedIntervals(branch, intervals) ==
    IF branch = "power"
    THEN SelectSeq(<<0, 7>>, LAMBDA p : \E x \in 1 .. Len(intervals) : intervals[x] = p)
    ELSE intervals

\* "C-G-Am-F", "Bb7-H--C5" and "Cdim-F#m7" as character sequences
ProgressionInputs ==
    { <<"C","-","G","-","A","m","-","F">>,
      <<"B","b","7","-","H","-","-","C","5">>,
      <<"C","d","i","m","-","F","#","m","7">> }

ChordStyleInputs == {"pad", "staccato", "arpeggio", "power", "strum"}

\* (tempo, duration_per_chord in thousandths of a beat)
ChordTimingInputs == {<<60, 4000>>, <<200, 500>>}

Invoke_create_chord_progression ==
    /\ At("idle", "idle")
    /\ \E progression \in ProgressionInputs, style \in ChordStyleInputs,
          timing \in ChordTimingInputs :
        /\ args' = [style |-> style,
                    tempo |-> Clamp(40, 180, timing[1]),
                    duration_per_chord |-> Clamp(1000, 8000, timing[2])]
        /\ loc' = [base_id |-> get_node_id(now), node_counter |-> 0, chord_idx |-> 0,
                   chords |-> Split(progression, "-"), intervals |-> <<>>,
                   voiced |-> <<>>, i |-> 0, active_nodes |-> <<>>, k |-> 1,
                   root_semitone |-> 0, voices |-> <<>>, chord_start |-> now,
                   waited |-> <<0, 1>>]
    /\ tool' = "create_chord_progression"
    /\ pc' = "ch_next"
    /\ NoSend /\ NoSleep /\ UNCHANGED <<exc, outcome, cancel_requested>>

\* chord_duration = beat_duration * duration_per_chord, beat_duration = 60.0 / tempo
chord_duration == <<60 * args.duration_per_chord, args.tempo>>

\* q scaled by num / den
Scale(q, num, den) == <<q[1] * num, q[2] * den>>

\* root_semitone = note_to_semitone[root_note], 0 when the token has no known root
ChordRoot(chord_name) ==
    IF chord_name = <<>> THEN 0
    ELSE LET c == ParseChord(chord_name)
         IN IF c.root_note \in DOMAIN note_to_semitone THEN note_to_semitone[c.root_note]
            ELSE 0

\* variant of voice_amp: the fifth of a power chord is as loud as its root
voice_amp_power_flat(branch, i, n, interval) ==
    CASE branch = "pad" -> IF i = 0 \/ i = n - 1 THEN 30 ELSE 20
      [] branch = "staccato" -> IF i = 0 \/ i = n - 1 THEN 40 ELSE 30
      [] branch = "arpeggio" -> 30
      [] branch = "power" -> 50
      [] OTHER -> IF i = 0 \/ i = n - 1 THEN 30 ELSE 20

\* amp of voice i of n in each block of the if/elif chain, in hundredths; in power,
\* i == 0 is the root of power_intervals = [0, 7]
voice_amp(branch, i, n, interval) ==
    CASE branch = "pad" -> IF i = 0 \/ i = n - 1 THEN 30 ELSE 20
      [] branch = "staccato" -> IF i = 0 \/ i = n - 1 THEN 40 ELSE 30
      [] branch = "arpeggio" -> 30
      [] branch = "power" -> IF interval = 0 THEN 50 ELSE 40
      [] OTHER -> IF i = 0 \/ i = n - 1 THEN 30 ELSE 20

\* (i / (n - 1)) * spread - spread / 2 in hundredths as the pair
\* <<numerator, n - 1>>, <<0, 1>> for a single voice
PanSpread(i, n, spread) ==
    IF n > 1 THEN <<i * spread - (n - 1) * (spread \div 2), n - 1>> ELSE <<0, 1>>

\* variant of voice_pan: the default block spreads its voices as staccato does
voice_pan_default_narrow(branch, i, n) ==
    CASE branch = "pad" -> PanSpread(i, n, 160)
      [] branch = "staccato" -> PanSpread(i, n, 120)
      [] branch \in {"arpeggio", "power"} -> <<0, 0>>
      [] OTHER -> PanSpread(i, n, 120)

\* pan of voice i of n in each block; arpeggio and power send no pan, <<0, 0>>
voice_pan(branch, i, n) ==
    CASE branch = "pad" -> PanSpread(i, n, 160)
      [] branch = "staccato" -> PanSpread(i, n, 120)
      [] branch \in {"arpeggio", "power"} -> <<0, 0>>
      [] OTHER -> PanSpread(i, n, 160)

\* the parameters of the /s_new for position i (from 0) of the voiced intervals:
\* semitones = root_semitone + interval - 9 stands for freq = 440 * 2 ** (semitones / 12)
Voice(branch, id, i) ==
    [id |-> id,
     semitones |-> loc.root_semitone + loc.voiced[i + 1] - 9,
     amp |-> voice_amp(branch, i, Len(loc.intervals), loc.voiced[i + 1]),
     pan |-> voice_pan(branch, i, Len(loc.intervals))]

\* for chord_idx, chord_name in enumerate(chords): parse the token, choose the branch
ch_next_in(branch) ==
    /\ At("create_chord_progression", "ch_next")
    /\ NoSend /\ NoSleep
    /\ IF loc.chord_idx >= Len(loc.chords)
       THEN /\ Return
            /\ UNCHANGED loc
       ELSE LET intervals == ChordIntervals(loc.chords[loc.chord_idx + 1])
                voiced == VoicedIntervals(branch, intervals)
            IN /\ Frame
               /\ loc' = [loc EXCEPT !.intervals = intervals, !.voiced = voiced,
                                     !.i = 0, !.active_nodes = <<>>, !.k = 1,
                                     !.root_semitone = ChordRoot(loc.chords[loc.chord_idx + 1]),
                                     !.voices = <<>>, !.chord_start = now,
                                     !.waited = <<0, 1>>]
               /\ pc' = IF intervals = <<>> THEN "ch_rest"
                        ELSE IF branch = "arpeggio" THEN "arp_new"
                        ELSE IF voiced = <<>> THEN "ch_hold"
                        ELSE "ch_new"

ch_next == ch_next_in(StyleBranch(args.style))

\* variant of ch_rest: the rest takes an id from the counter
ch_rest_takes_id ==
    /\ At("create_chord_progression", "ch_rest")
    /\ Sleep(chord_duration)
    /\ loc' = [loc EXCEPT !.chord_idx = @ + 1, !.node_counter = @ + 1,
                          !.waited = QAdd(@, chord_duration)]
    /\ pc' = "ch_next"
    /\ NoSend /\ Frame

\* unrecognized root or empty token: time.sleep(chord_duration)
ch_rest ==
    /\ At("create_chord_progression", "ch_rest")
    /\ Sleep(chord_duration)
    /\ loc' = [loc EXCEPT !.chord_idx = @ + 1, !.waited = QAdd(@, chord_duration)]
    /\ pc' = "ch_next"
    /\ NoSend /\ Frame

\* pad, staccato, power, else: node_id = base_id + node_counter; node_counter += 1;
\* send /s_new; active_nodes.append(node_id)
ch_new_in(branch) ==
    /\ At("create_chord_progression", "ch_new")
    /\ SendNew(loc.base_id + loc.node_counter)
    /\ loc' = [loc EXCEPT !.node_counter = @ + 1, !.i = @ + 1,
                          !.active_nodes = Append(@, loc.base_id + loc.node_counter),
                          !.voices = Append(@, Voice(branch, loc.base_id + loc.node_counter,
                                                     loc.i))]
    /\ pc' = IF loc.i + 1 < Len(loc.voiced) THEN "ch_new" ELSE "ch_hold"
    /\ NoSleep /\ Frame

ch_new == ch_new_in(StyleBranch(args.style))

\* the hold: chord_duration, or chord_duration * 0.25 in staccato
ch_hold_in(branch) ==
    /\ At("create_chord_progression", "ch_hold")
    /\ LET hold == IF branch = "staccato" THEN Scale(chord_duration, 25, 100)
                   ELSE chord_duration
       IN /\ Sleep(hold)
          /\ loc' = [loc EXCEPT !.waited = QAdd(@, hold)]
    /\ pc' = "ch_free"
    /\ NoSend /\ Frame

ch_hold == ch_hold_in(StyleBranch(args.style))

\* for node_id in active_nodes: send /n_free
ch_free_in(branch) ==
    /\ At("create_chord_progression", "ch_free")
    /\ NoSleep /\ Frame
    /\ IF loc.k <= Len(loc.active_nodes)
       THEN /\ SendFree(loc.active_nodes[loc.k])
            /\ loc' = [loc EXCEPT !.k = @ + 1]
            /\ pc' = "ch_free"
       ELSE /\ NoSend
            /\ IF branch = "staccato"
               THEN /\ UNCHANGED loc
                    /\ pc' = "ch_tail"
               ELSE /\ loc' = [loc EXCEPT !.chord_idx = @ + 1]
                    /\ pc' = "ch_next"

ch_free == ch_free_in(StyleBranch(args.style))

\* variant of ch_tail: staccato waits half of the chord duration after the release
ch_tail_half ==
    /\ At("create_chord_progression", "ch_tail")
    /\ Sleep(Scale(chord_duration, 50, 100))
    /\ loc' = [loc EXCEPT !.chord_idx = @ + 1,
                          !.waited = QAdd(@, Scale(chord_duration, 50, 100))]
    /\ pc' = "ch_next"
    /\ NoSend /\ Frame

\* staccato: time.sleep(chord_duration * 0.75)
ch_tail ==
    /\ At("create_chord_progression", "ch_tail")
    /\ Sleep(Scale(chord_duration, 75, 100))
    /\ loc' = [loc EXCEPT !.chord_idx = @ + 1,
                          !.waited = QAdd(@, Scale(chord_duration, 75, 100))]
    /\ pc' = "ch_next"
    /\ NoSend /\ Frame

\* note_duration = chord_duration / len(frequencies)
\* variant of note_duration: every chord is taken to have three notes
note_duration_triad == Scale(chord_duration, 1, 3)

note_duration == Scale(chord_duration, 1, Len(loc.intervals))

\* arpeggio: node_id = base_id + node_counter; node_counter += 1; send /s_new
arp_new ==
    /\ At("create_chord_progression", "arp_new")
    /\ SendNew(loc.base_id + loc.node_counter)
    /\ loc' = [loc EXCEPT !.node_counter = @ + 1,
                          !.voices = Append(@, Voice("arpeggio", loc.base_id + loc.node_counter,
                                                     loc.i))]
    /\ pc' = "arp_hold"
    /\ NoSleep /\ Frame

\* time.sleep(note_duration * 0.9)
arp_hold ==
    /\ At("create_chord_progression", "arp_hold")
    /\ Sleep(Scale(note_duration, 9, 10))
    /\ loc' = [loc EXCEPT !.waited = QAdd(@, Scale(note_duration, 9, 10))]
    /\ pc' = "arp_free"
    /\ NoSend /\ Frame

\* variant of arp_free: the id is recomputed after node_counter was incremented
arp_free_recomputed ==
    /\ At("create_chord_progression", "arp_free")
    /\ SendFree(loc.base_id + loc.node_counter)
    /\ pc' = "arp_gap"
    /\ NoSleep /\ Frame /\ UNCHANGED loc

\* send /n_free for node_id, the id of the note just held
arp_free ==
    /\ At("create_chord_progression", "arp_free")
    /\ SendFree(loc.base_id + loc.node_counter - 1)
    /\ pc' = "arp_gap"
    /\ NoSleep /\ Frame /\ UNCHANGED loc

\* time.sleep(note_duration * 0.1)
arp_gap ==
    /\ At("create_chord_progression", "arp_gap")
    /\ Sleep(Scale(note_duration, 1, 10))
    /\ NoSend /\ Frame
    /\ IF loc.i + 1 < Len(loc.intervals)
       THEN /\ loc' = [loc EXCEPT !.i = @ + 1,
                                  !.waited = QAdd(@, Scale(note_duration, 1, 10))]
            /\ pc' = "arp_new"
       ELSE /\ loc' = [loc EXCEPT !.chord_idx = @ + 1,
                                  !.waited = QAdd(@, Scale(note_duration, 1, 10))]
            /\ pc' = "ch_next"

----------------------------------------------------------------------------
(* create_ambient_soundscape *)

\* duration in s, density in tenths
AmbientDurationInputs == {5}

AmbientDensityInputs == {5}

AmbientMoodInputs == {"eerie"}

\* moods[mood]["event_duration"] in ms; an unrecognized mood is "calm"
event_duration(mood) ==
    CASE mood = "dark" -> <<3000, 10000>>
      [] mood = "bright" -> <<1000, 5000>>
      [] mood = "mysterious" -> <<4000, 12000>>
      [] mood = "chaotic" -> <<500, 4000>>
      [] OTHER -> <<2000, 8000>>

\* the values drawn for event_start = random.uniform(0, duration * 0.8), in ms
EventStartDraws(duration) == {0, 800 * duration}

\* the values drawn for event_dur = random.uniform(min_dur, max_dur), in ms
EventDurDraws(mood) == {event_duration(mood)[1], event_duration(mood)[2]}

\* the outcomes of a test random.random() < 0.7
CoinDraws == {TRUE, FALSE}

Invoke_create_ambient_soundscape ==
    /\ At("idle", "idle")
    /\ \E duration \in AmbientDurationInputs, density \in AmbientDensityInputs,
          mood \in AmbientMoodInputs :
        LET d == Clamp(10, 120, duration)
        IN args' = [duration |-> d,
                    density |-> Clamp(0, 10, density),
                    mood |-> mood,
                    num_events |-> Clamp(3, 20, (d * Clamp(0, 10, density)) \div 20)]
    /\ loc' = [base_id |-> get_node_id(now), i |-> 0, start_time |-> 0, end_time |-> 0,
               active_nodes |-> <<>>, time_to_wait |-> 0, event_dur |-> 0,
               n_mod |-> 0, j |-> 0, k |-> 1]
    /\ tool' = "create_ambient_soundscape"
    /\ pc' = "amb_bg"
    /\ NoSend /\ NoSleep /\ UNCHANGED <<exc, outcome, cancel_requested>>

\* event_id = base_id + 100 + i
\* variant of EventId: the events start at the base id
EventId_from_base(base_id, i) == base_id + i

EventId(base_id, i) == base_id + 100 + i

\* the background drone, before the try: send /s_new for bg_id = base_id;
\* active_nodes.append(bg_id); start_time = time.time(); end_time = start_time + duration
amb_bg ==
    /\ At("create_ambient_soundscape", "amb_bg")
    /\ SendNew(loc.base_id)
    /\ loc' = [loc EXCEPT !.active_nodes = <<loc.base_id>>, !.start_time = now,
                          !.end_time = now + 1000 * args.duration]
    /\ pc' = "amb_event"
    /\ NoSleep /\ Frame

\* for i in range(num_events): time_to_wait = start_time + event_start - time.time()
amb_event ==
    /\ At("create_ambient_soundscape", "amb_event")
    /\ NoSend /\ NoSleep /\ Frame
    /\ IF loc.i >= args.num_events
       THEN /\ UNCHANGED loc
            /\ pc' = "amb_wait"
       ELSE \E event_start \in EventStartDraws(args.duration) :
               LET time_to_wait == loc.start_time + event_start - now
               IN /\ loc' = [loc EXCEPT !.time_to_wait = time_to_wait]
                  /\ pc' = IF time_to_wait > 0 THEN "amb_presleep" ELSE "amb_check"

\* time.sleep(time_to_wait)
amb_presleep ==
    /\ At("create_ambient_soundscape", "amb_presleep")
    /\ SleepJitter(Ms(loc.time_to_wait))
    /\ pc' = "amb_check"
    /\ NoSend /\ Frame /\ UNCHANGED loc

\* if time.time() >= end_time: break; event_dur = min(event_dur, end_time - time.time());
\* if event_dur <= 0: continue
amb_check ==
    /\ At("create_ambient_soundscape", "amb_check")
    /\ NoSend /\ NoSleep /\ Frame
    /\ IF now >= loc.end_time
       THEN /\ UNCHANGED loc
            /\ pc' = "amb_wait"
       ELSE \E drawn \in EventDurDraws(args.mood) :
               LET event_dur == Min(drawn, loc.end_time - now)
               IN IF event_dur <= 0
                  THEN /\ loc' = [loc EXCEPT !.i = @ + 1]
                       /\ pc' = "amb_event"
                  ELSE /\ loc' = [loc EXCEPT !.event_dur = event_dur]
                       /\ pc' = "amb_new"

\* send /s_new for event_id; active_nodes.append(event_id);
\* if event_dur > 3.0 and random.random() < 0.7: modulate, else hold
amb_new ==
    /\ At("create_ambient_soundscape", "amb_new")
    /\ SendNew(EventId(loc.base_id, loc.i))
    /\ NoSleep /\ Frame
    /\ \E coin \in CoinDraws :
        IF loc.event_dur > 3000 /\ coin
        THEN /\ loc' = [loc EXCEPT !.active_nodes = Append(@, EventId(loc.base_id, loc.i)),
                                   !.n_mod = loc.event_dur \div 500, !.j = 0]
             /\ pc' = "amb_mod"
        ELSE /\ loc' = [loc EXCEPT !.active_nodes = Append(@, EventId(loc.base_id, loc.i))]
             /\ pc' = "amb_hold"

\* for j in range(int(event_dur / 0.5)): if time.time() >= end_time: break; send /n_set
amb_mod ==
    /\ At("create_ambient_soundscape", "amb_mod")
    /\ NoSleep /\ Frame /\ UNCHANGED loc
    /\ IF loc.j >= loc.n_mod \/ now >= loc.end_time
       THEN /\ NoSend
            /\ pc' = "amb_release"
       ELSE /\ SendSet(EventId(loc.base_id, loc.i))
            /\ pc' = "amb_mod_sleep"

\* time.sleep(0.5)
amb_mod_sleep ==
    /\ At("create_ambient_soundscape", "amb_mod_sleep")
    /\ SleepJitter(Ms(500))
    /\ loc' = [loc EXCEPT !.j = @ + 1]
    /\ pc' = "amb_mod"
    /\ NoSend /\ Frame

\* time.sleep(event_dur)
amb_hold ==
    /\ At("create_ambient_soundscape", "amb_hold")
    /\ SleepJitter(Ms(loc.event_dur))
    /\ pc' = "amb_release"
    /\ NoSend /\ Frame /\ UNCHANGED loc

\* if event_dur < 5.0 or random.random() < 0.7: send /n_free; active_nodes.remove(event_id)
amb_release ==
    /\ At("create_ambient_soundscape", "amb_release")
    /\ NoSend /\ NoSleep /\ Frame
    /\ \E coin \in CoinDraws :
        IF loc.event_dur < 5000 \/ coin
        THEN /\ UNCHANGED loc
             /\ pc' = "amb_free"
        ELSE /\ loc' = [loc EXCEPT !.i = @ + 1]
             /\ pc' = "amb_event"

\* variant of amb_free: the event id stays in active_nodes after its /n_free
amb_free_keep_tracked ==
    /\ At("create_ambient_soundscape", "amb_free")
    /\ SendFree(EventId(loc.base_id, loc.i))
    /\ loc' = [loc EXCEPT !.i = @ + 1]
    /\ pc' = "amb_event"
    /\ NoSleep /\ Frame

amb_free ==
    /\ At("create_ambient_soundscape", "amb_free")
    /\ SendFree(EventId(loc.base_id, loc.i))
    /\ loc' = [loc EXCEPT !.i = @ + 1,
                          !.active_nodes = SelectSeq(@, LAMBDA n : n # EventId(loc.base_id, loc.i))]
    /\ pc' = "amb_event"
    /\ NoSleep /\ Frame

\* variant of amb_wait: the cleanup follows the last event at once
amb_wait_skipped ==
    /\ At("create_ambient_soundscape", "amb_wait")
    /\ NoSleep
    /\ loc' = [loc EXCEPT !.k = 1]
    /\ pc' = "amb_finally"
    /\ NoSend /\ Frame

\* remaining = end_time - time.time(); if remaining > 0: time.sleep(remaining)
amb_wait ==
    /\ At("create_ambient_soundscape", "amb_wait")
    /\ IF loc.end_time - now > 0
       THEN SleepJitter(Ms(loc.end_time - now))
       ELSE NoSleep
    /\ loc' = [loc EXCEPT !.k = 1]
    /\ pc' = "amb_finally"
    /\ NoSend /\ Frame

\* finally: for node in active_nodes: send /n_free
amb_finally ==
    /\ At("create_ambient_soundscape", "amb_finally")
    /\ NoSleep
    /\ IF loc.k <= Len(loc.active_nodes)
       THEN /\ SendFree(loc.active_nodes[loc.k])
            /\ loc' = [loc EXCEPT !.k = @ + 1]
            /\ pc' = "amb_finally"
            /\ Frame
       ELSE /\ NoSend
            /\ UNCHANGED loc
            /\ EndFinally

----------------------------------------------------------------------------
(* create_generative_rhythm *)

\* (style, intensity in tenths)
RhythmStyleInputs == {<<"minimal", 10>>, <<"drone", 0>>}

\* duration in s, tempo in BPM
RhythmDurationInputs == {2}

RhythmTempoInputs == {60}

\* styles[style][param] in thousandths; an unrecognized style gets styles["minimal"]
styles(style) ==
    CASE style = "techno" ->
            [pulse_rate |-> 900, variation_rate |-> 300, complexity |-> 500,
             syncopation |-> 400, swing |-> 200]
      [] style = "glitch" ->
            [pulse_rate |-> 700, variation_rate |-> 800, complexity |-> 900,
             syncopation |-> 700, swing |-> 300]
      [] style = "jazz" ->
            [pulse_rate |-> 600, variation_rate |-> 500, complexity |-> 700,
             syncopation |-> 800, swing |-> 700]
      [] style = "ambient" ->
            [pulse_rate |-> 400, variation_rate |-> 200, complexity |-> 200,
             syncopation |-> 100, swing |-> 50]
      [] OTHER ->
            [pulse_rate |-> 800, variation_rate |-> 200, complexity |-> 300,
             syncopation |-> 200, swing |-> 100]

\* style_params[param] = min(1.0, style_params[param] * (0.7 + intensity * 0.6)),
\* in 1/100000
style_params(style, intensity) ==
    [param \in DOMAIN styles(style) |->
        Min(100000, styles(style)[param] * (70 + 6 * intensity))]

\* the initial 16-step patterns: the if/elif chain on style (glitch draws its rows)
initial_patterns(style, kick, snare, hihat) ==
    CASE style = "minimal" ->
            [kick  |-> <<1,0,0,0, 1,0,0,0, 1,0,0,0, 1,0,0,0>>,
             snare |-> <<0,0,0,0, 1,0,0,0, 0,0,0,0, 1,0,0,0>>,
             hihat |-> <<1,0,1,0, 1,0,1,0, 1,0,1,0, 1,0,1,0>>]
      [] style = "techno" ->
            [kick  |-> <<1,0,0,0, 1,0,0,0, 1,0,0,0, 1,0,0,0>>,
             snare |-> <<0,0,0,0, 1,0,0,0, 0,0,0,0, 1,0,0,0>>,
             hihat |-> Ones16]
      [] style = "glitch" -> [kick |-> kick, snare |-> snare, hihat |-> hihat]
      [] style = "jazz" ->
            [kick  |-> <<1,0,0,1, 0,0,1,0, 0,1,0,0, 1,0,0,0>>,
             snare |-> <<0,0,1,0, 0,1,0,0, 1,0,0,1, 0,0,1,0>>,
             hihat |-> <<1,0,1,0, 1,0,1,0, 1,0,1,0, 1,0,1,0>>]
      [] OTHER ->
            [kick  |-> <<1,0,0,0, 0,0,0,0, 0,0,0,0, 1,0,0,0>>,
             snare |-> <<0,0,0,0, 1,0,0,0, 0,0,0,0, 0,0,0,0>>,
             hihat |-> <<0,0,1,0, 0,0,1,0, 0,0,1,0, 0,0,1,0>>]

\* duration = max(5, min(120, int(duration))); tempo = max(60, min(240, int(tempo)))
rhythm_duration(duration) == Clamp(5, 120, duration)

rhythm_tempo(tempo) == Clamp(60, 240, tempo)

\* num_beats = max(4, min(240, int(duration / beat_duration))), beat_duration = 60 / tempo
num_beats(duration, tempo) == Clamp(4, 240, (duration * tempo) \div 60)

\* the invocation runs with a random source whose every draw is the highest value
\* random.random() can return
HighDraws == "rng" \in DOMAIN args /\ args.rng = "high"

\* the invocation runs with a random source whose draws are the highest value
\* except the draw of the variation test, which is free
HighHitDraws == "rng" \in DOMAIN args /\ args.rng = "high_hits"

\* the outcomes of a test random.random() < p, p in 1/100000 (random() is in [0, 1))
Gate(p) ==
    IF p >= 100000 THEN {TRUE}
    ELSE IF p <= 0 \/ HighDraws \/ HighHitDraws THEN {FALSE}
    ELSE {TRUE, FALSE}

\* the outcomes of random.random() < style_params["variation_rate"]
VariationGate(p) ==
    IF HighHitDraws /\ p > 0 /\ p < 100000 THEN {TRUE, FALSE} ELSE Gate(p)

\* variant of EvolveBeat: the patterns may evolve every 8 beats
EvolveBeat_every_8(beat) == beat % 8 = 0

\* beat % 16 == 0
EvolveBeat(beat) == beat % 16 = 0

\* the steps the evolution may flip in the kick, snare and hihat patterns
FlipDraws == { <<{1}, {}, 1 .. 16>>, <<1 .. 16, {5}, {}>> }

\* pattern[i] = 1 - pattern[i] for the steps in flips
Flip(pattern, flips) == [i \in 1 .. 16 |-> IF i \in flips THEN 1 - pattern[i] ELSE pattern[i]]

Invoke_create_generative_rhythm ==
    /\ At("idle", "idle")
    /\ \E si \in RhythmStyleInputs, duration \in RhythmDurationInputs,
          tempo \in RhythmTempoInputs,
          kick \in RandomRows, snare \in RandomRows, hihat \in RandomRows :
        LET style == si[1]
            d == rhythm_duration(duration)
            t == rhythm_tempo(tempo)
            x == Clamp(0, 10, si[2])
        IN /\ style # "glitch" => kick = Zeros16 /\ snare = Zeros16 /\ hihat = Zeros16
           /\ args' = [style |-> style, duration |-> d, tempo |-> t, intensity |-> x,
                       style_params |-> style_params(style, x),
                       num_beats |-> num_beats(d, t), start |-> now]
           /\ loc' = [base_id |-> get_node_id(now), beat |-> 0, k |-> 1,
                      patterns |-> initial_patterns(style, kick, snare, hihat)]
    /\ tool' = "create_generative_rhythm"
    /\ pc' = "rh_evolve"
    /\ NoSend /\ NoSleep /\ UNCHANGED <<exc, outcome, cancel_requested>>

\* variant of rh_evolve: the patterns evolve on every 16th beat, whatever the draw
rh_evolve_ungated ==
    /\ At("create_generative_rhythm", "rh_evolve")
    /\ NoSend /\ NoSleep
    /\ IF loc.beat >= args.num_beats
       THEN /\ Return
            /\ UNCHANGED loc
       ELSE /\ Frame
            /\ pc' = "rh_kick"
            /\ IF loc.beat % 16 = 0
               THEN \E f \in FlipDraws :
                       loc' = [loc EXCEPT !.patterns =
                                  [kick  |-> Flip(@.kick, f[1]),
                                   snare |-> Flip(@.snare, f[2]),
                                   hihat |-> Flip(@.hihat, f[3])]]
               ELSE UNCHANGED loc

\* for beat in range(num_beats): if beat % 16 == 0 and random.random() < variation_rate:
\* flip steps of the three patterns
rh_evolve ==
    /\ At("create_generative_rhythm", "rh_evolve")
    /\ NoSend /\ NoSleep
    /\ IF loc.beat >= args.num_beats
       THEN /\ Return
            /\ UNCHANGED loc
       ELSE /\ Frame
            /\ pc' = "rh_kick"
            /\ \E gate \in VariationGate(args.style_params.variation_rate) :
                IF EvolveBeat(loc.beat) /\ gate
                THEN \E f \in FlipDraws :
                        loc' = [loc EXCEPT !.patterns =
                                   [kick  |-> Flip(@.kick, f[1]),
                                    snare |-> Flip(@.snare, f[2]),
                                    hihat |-> Flip(@.hihat, f[3])]]
                ELSE UNCHANGED loc

\* pattern[step] == 1, step = beat % 16
RhythmHit(instrument) == loc.patterns[instrument][(loc.beat % 16) + 1] = 1

\* if kick_pattern[step] == 1 and random.random() < pulse_rate: send /s_new
rh_kick ==
    /\ At("create_generative_rhythm", "rh_kick")
    /\ \E gate \in Gate(args.style_params.pulse_rate) :
        IF RhythmHit("kick") /\ gate
        THEN SendNew(KickId(loc.base_id, loc.beat)) ELSE NoSend
    /\ pc' = "rh_snare"
    /\ NoSleep /\ Frame /\ UNCHANGED loc

rh_snare ==
    /\ At("create_generative_rhythm", "rh_snare")
    /\ \E gate \in Gate(args.style_params.pulse_rate) :
        IF RhythmHit("snare") /\ gate
        THEN SendNew(SnareId(loc.base_id, loc.beat)) ELSE NoSend
    /\ pc' = "rh_hihat"
    /\ NoSleep /\ Frame /\ UNCHANGED loc

rh_hihat ==
    /\ At("create_generative_rhythm", "rh_hihat")
    /\ \E gate \in Gate(args.style_params.pulse_rate) :
        IF RhythmHit("hihat") /\ gate
        THEN SendNew(HihatId(loc.base_id, loc.beat)) ELSE NoSend
    /\ pc' = "rh_accent"
    /\ NoSleep /\ Frame /\ UNCHANGED loc

\* if random.random() < syncopation * 0.2: send /s_new for the accent
rh_accent ==
    /\ At("create_generative_rhythm", "rh_accent")
    /\ \E gate \in Gate(args.style_params.syncopation \div 5) :
        IF gate THEN SendNew(AccentId(loc.base_id, loc.beat)) ELSE NoSend
    /\ pc' = "rh_sleep"
    /\ NoSleep /\ Frame /\ UNCHANGED loc

\* variant of beat_wait: the swing is added on the even steps
beat_wait_swing_even(tempo, swing, beat) ==
    IF (beat % 16) % 2 = 0 THEN <<3 * (200000 + swing), tempo * 10>>
    ELSE <<60000, tempo>>

\* beat_duration + swing_amount: swing_amount = beat_duration * swing * 0.5 on odd steps
beat_wait(tempo, swing, beat) ==
    IF (beat % 16) % 2 = 1 THEN <<3 * (200000 + swing), tempo * 10>>
    ELSE <<60000, tempo>>

rh_sleep ==
    /\ At("create_generative_rhythm", "rh_sleep")
    /\ Sleep(beat_wait(args.tempo, args.style_params.swing, loc.beat))
    /\ loc' = [loc EXCEPT !.k = 1]
    /\ pc' = "rh_free"
    /\ NoSend /\ Frame

\* variant of potential_ids: the accent id is left out, the hi-hat id is listed twice
potential_ids_no_accent(base_id, beat) ==
    <<KickId(base_id, beat), SnareId(base_id, beat), HihatId(base_id, beat),
      HihatId(base_id, beat)>>

\* potential_ids: the kick, snare, hihat and accent ids of the beat
potential_ids(base_id, beat) ==
    <<KickId(base_id, beat), SnareId(base_id, beat), HihatId(base_id, beat),
      AccentId(base_id, beat)>>

\* for node_id in potential_ids: send /n_free
rh_free ==
    /\ At("create_generative_rhythm", "rh_free")
    /\ SendFree(potential_ids(loc.base_id, loc.beat)[loc.k])
    /\ IF loc.k < 4
       THEN /\ loc' = [loc EXCEPT !.k = @ + 1]
            /\ pc' = "rh_free"
       ELSE /\ loc' = [loc EXCEPT !.k = 1, !.beat = @ + 1]
            /\ pc' = "rh_evolve"
    /\ NoSleep /\ Frame

----------------------------------------------------------------------------
(* Failures *)

\* the statements that send /s_new or /n_set or sleep, and the /n_free sends inside
\* a try body: a failure may be raised in place of any of them
FaultPoints ==
    {"ex_new", "ex_sleep1", "ex_set", "ex_sleep",
     "mel_new", "mel_sleep", "scale_new", "scale_sleep",
     "dr_kick_new", "dr_snare_new", "dr_hihat_new", "dr_sleep",
     "syn_new", "syn_sleep",
     "seq_new", "seq_sleep", "seq_rest",
     "lfo_new", "lfo_set", "lfo_sleep",
     "lay_new", "lay_sleep",
     "gr_new", "gr_expire", "gr_sleep",
     "ch_rest", "ch_new", "ch_hold", "ch_tail", "arp_new", "arp_hold", "arp_gap",
     "amb_bg", "amb_presleep", "amb_new", "amb_mod", "amb_mod_sleep", "amb_hold",
     "amb_free", "amb_wait",
     "rh_kick", "rh_snare", "rh_hihat", "rh_accent", "rh_sleep", "rh_free"}

\* the statements inside the try of a tool that has one
TryBody(t) ==
    CASE t = "create_lfo_modulation" -> {"lfo_test", "lfo_value", "lfo_set", "lfo_sleep"}
      [] t = "create_layered_synth" -> {"lay_new", "lay_sleep"}
      [] t = "create_granular_texture" -> {"gr_test", "gr_amp", "gr_new", "gr_expire", "gr_sleep"}
      [] t = "create_ambient_soundscape" ->
            {"amb_event", "amb_presleep", "amb_check", "amb_new", "amb_mod", "amb_mod_sleep",
             "amb_hold", "amb_release", "amb_free", "amb_wait"}
      [] t = "create_generative_rhythm" ->
            {"rh_evolve", "rh_kick", "rh_snare", "rh_hihat", "rh_accent", "rh_sleep", "rh_free"}
      [] OTHER -> {}

\* variant of Handler: create_layered_synth has no finally block
Handler_layered_unguarded(t, p) ==
    IF p \notin TryBody(t) \/ t = "create_layered_synth" THEN "none"
    ELSE IF t = "create_generative_rhythm" THEN "except"
    ELSE "finally"

\* what a try does with an exception: "finally" runs the cleanup and lets it
\* propagate, "except" returns an error string; "none" when there is no try around p
Handler(t, p) ==
    IF p \notin TryBody(t) THEN "none"
    ELSE IF t = "create_generative_rhythm" THEN "except"
    ELSE "finally"

\* the first statement of the tool's finally block
FinallyLabel(t) ==
    CASE t = "create_lfo_modulation" -> "lfo_finally"
      [] t = "create_layered_synth" -> "lay_finally"
      [] t = "create_granular_texture" -> "gr_finally"
      [] t = "create_ambient_soundscape" -> "amb_finally"

\* the statement at pc raises instead of completing
Raise ==
    /\ outcome = "running"
    /\ pc \in FaultPoints
    /\ LET h == Handler(tool, pc)
       IN CASE h = "finally" ->
                 /\ pc' = FinallyLabel(tool)
                 /\ exc' = TRUE
                 /\ UNCHANGED outcome
            [] h = "except" ->
                 /\ pc' = "done"
                 /\ outcome' = "error"
                 /\ UNCHANGED exc
            [] OTHER ->
                 /\ pc' = "done"
                 /\ outcome' = "raised"
                 /\ UNCHANGED exc
    /\ NoSend /\ NoSleep /\ UNCHANGED <<tool, args, loc, cancel_requested>>

----------------------------------------------------------------------------
(* The specification *)

Init ==
    /\ tool = "idle"
    /\ pc = "idle"
    /\ args = [none |-> 0]
    /\ loc = [none |-> 0]
    /\ now \in StartClocks
    /\ live = {}
    /\ sent = [new |-> EmptyBag, set |-> EmptyBag, free |-> EmptyBag]
    /\ slept = <<0, 1>>
    /\ exc = FALSE
    /\ outcome = "running"
    /\ cancel_requested = FALSE

\* one statement of a tool body, completing normally
Step ==
    \/ Invoke_play_example_osc \/ ex_new \/ ex_sleep1 \/ ex_set \/ ex_sleep \/ ex_free
    \/ Invoke_play_melody \/ mel_new \/ mel_sleep \/ mel_free
    \/ scale_new \/ scale_sleep \/ scale_free
    \/ Invoke_create_drum_pattern \/ dr_kick_new \/ dr_snare_new \/ dr_hihat_new \/ dr_sleep
    \/ dr_kick_free \/ dr_snare_free \/ dr_hihat_free
    \/ Invoke_play_synth \/ syn_new \/ syn_sleep \/ syn_free
    \/ Invoke_create_sequence \/ seq_next \/ seq_new \/ seq_sleep \/ seq_free \/ seq_rest
    \/ Invoke_create_lfo_modulation \/ lfo_new \/ lfo_start \/ lfo_test \/ lfo_value
    \/ lfo_set \/ lfo_sleep \/ lfo_finally
    \/ Invoke_create_layered_synth \/ lay_new \/ lay_sleep \/ lay_finally
    \/ Invoke_create_granular_texture \/ gr_test \/ gr_amp \/ gr_new \/ gr_expire
    \/ gr_sleep \/ gr_finally
    \/ Invoke_create_chord_progression \/ ch_next \/ ch_rest \/ ch_new \/ ch_hold
    \/ ch_free \/ ch_tail \/ arp_new \/ arp_hold \/ arp_free \/ arp_gap
    \/ Invoke_create_ambient_soundscape \/ amb_bg \/ amb_event \/ amb_presleep
    \/ amb_check \/ amb_new \/ amb_mod \/ amb_mod_sleep \/ amb_hold \/ amb_release
    \/ amb_free \/ amb_wait \/ amb_finally
    \/ Invoke_create_generative_rhythm \/ rh_evolve \/ rh_kick \/ rh_snare \/ rh_hihat
    \/ rh_accent \/ rh_sleep \/ rh_free

Next == Step \/ Raise

Spec == Init /\ [][Next]_vars

\* the invocations in which no send and no sleep fails
SpecNoFault == Init /\ [][Step]_vars

\* the caller asks for the running invocation to be cancelled: the tools are
\* coroutines without an await, the request changes nothing the body reads
Cancel ==
    /\ tool # "idle"
    /\ outcome = "running"
    /\ ~cancel_requested
    /\ cancel_requested' = TRUE
    /\ NoSend /\ NoSleep /\ UNCHANGED <<tool, pc, args, loc, exc, outcome>>

NextCancel == Step \/ Cancel

\* the invocations during which the caller may ask for cancellation
SpecCancel == Init /\ [][NextCancel]_vars

----------------------------------------------------------------------------
(* The id bands of the two drum tools as a function of the beat count *)

\* the clock samples, beat counts, durations and tempos the bands are computed for
BandClocks == {0, 45670, 99990}

BandBeatsInputs == {-3, 4, 16, 32, 1000}

BandDurationInputs == {1, 5, 20, 120, 500}

BandTempoInputs == {30, 60, 120, 240, 999}

\* the ids each instrument can be given over beat in range(n)
IdBands(base_id, n) ==
    [kick |-> {KickId(base_id, beat) : beat \in 0 .. n - 1},
     snare |-> {SnareId(base_id, beat) : beat \in 0 .. n - 1},
     hihat |-> {HihatId(base_id, beat) : beat \in 0 .. n - 1},
     accent |-> {AccentId(base_id, beat) : beat \in 0 .. n - 1}]

InitBands ==
    /\ pc = "bands"
    /\ \/ /\ tool = "create_drum_pattern"
          /\ args \in [beats : BandBeatsInputs]
       \/ /\ tool = "create_generative_rhythm"
          /\ args \in [duration : BandDurationInputs, tempo : BandTempoInputs]
    /\ loc = [none |-> 0]
    /\ now \in BandClocks
    /\ live = {}
    /\ sent = [new |-> EmptyBag, set |-> EmptyBag, free |-> EmptyBag]
    /\ slept = <<0, 1>>
    /\ exc = FALSE
    /\ outcome = "running"
    /\ cancel_requested = FALSE

\* create_drum_pattern: base_id = get_node_id(), for beat in range(beats)
bands_drum ==
    /\ At("create_drum_pattern", "bands")
    /\ LET n == drum_beats(args.beats)
       IN loc' = [base_id |-> get_node_id(now), n |-> n,
                  bands |-> IdBands(get_node_id(now), n)]
    /\ pc' = "banded"
    /\ NoSend /\ NoSleep /\ Frame

\* create_generative_rhythm: base_id = get_node_id(), for beat in range(num_beats)
bands_rhythm ==
    /\ At("create_generative_rhythm", "bands")
    /\ LET n == num_beats(rhythm_duration(args.duration), rhythm_tempo(args.tempo))
       IN loc' = [base_id |-> get_node_id(now), n |-> n,
                  bands |-> IdBands(get_node_id(now), n)]
    /\ pc' = "banded"
    /\ NoSend /\ NoSleep /\ Frame

NextBands == bands_drum \/ bands_rhythm

SpecBands == InitBands /\ [][NextBands]_vars

----------------------------------------------------------------------------
(* Properties *)

\* the ids a command of the kind was sent to in this step
Newly(kind) == {id \in DOMAIN sent'[kind] : Cnt(sent'[kind], id) > Cnt(sent[kind], id)}

\* every id that was sent /s_new was sent as many /n_free as /s_new
EveryCreateFreed == \A id \in DOMAIN sent.new : Cnt(sent.free, id) = sent.new[id]

GuardedTools ==
    {"create_lfo_modulation", "create_layered_synth", "create_granular_texture",
     "create_ambient_soundscape"}

BasicTools ==
    {"play_example_osc", "play_melody", "create_drum_pattern", "play_synth",
     "create_sequence"}

\* C1: when a tool returns normally, every id that was sent CreateVoice was sent
\* one FreeVoice per CreateVoice, and no voice it created is still live.
C1_NormalReturnFreesEveryVoice ==
    outcome = "returned" => (live = {} /\ EveryCreateFreed)

C1_Witness ==
    /\ outcome = "returned"
    /\ tool = "create_ambient_soundscape"
    /\ Cardinality(DOMAIN sent.new) >= 3

C3_ChordFailureFreesVoices ==
    (outcome = "raised" /\ tool = "create_chord_progression") => live = {}

\* C4: when create_generative_rhythm reports a failure, no voice of the beat that
\* was playing is left live.
C4_RhythmFailureFreesVoices ==
    (outcome = "error" /\ tool = "create_generative_rhythm") => live = {}

\* C5: when a failure propagates out of play_example_osc, play_melody,
\* create_drum_pattern, play_synth or create_sequence, the voice that was created
\* has been sent FreeVoice.
C5_BasicToolFailureFreesVoice ==
    (outcome = "raised" /\ tool \in BasicTools) => (live = {} /\ EveryCreateFreed)

\* C6 as stated: on normal return the tool sent as many FreeVoice as CreateVoice,
\* and no FreeVoice went to an id that was never created.
C6_FreesEqualCreates ==
    outcome = "returned" =>
        /\ SumBag(sent.free) = SumBag(sent.new)
        /\ DOMAIN sent.free \subseteq DOMAIN sent.new

\* C6 amended: on normal return every CreateVoice is matched by one FreeVoice for the
\* same id; the totals are equal and no FreeVoice goes to a never-created id in every
\* tool but create_generative_rhythm, which sends four FreeVoice per beat, one for
\* each band id of the beat, created or not.
C6_FreesCoverCreates ==
    outcome = "returned" =>
        /\ EveryCreateFreed
        /\ tool # "create_generative_rhythm" =>
              /\ SumBag(sent.free) = SumBag(sent.new)
              /\ DOMAIN sent.free \subseteq DOMAIN sent.new
        /\ tool = "create_generative_rhythm" =>
              /\ SumBag(sent.free) = 4 * args.num_beats
              /\ SumBag(sent.free) >= SumBag(sent.new)
              /\ DOMAIN sent.new \subseteq DOMAIN sent.free

C6_Witness ==
    /\ outcome = "returned"
    /\ tool = "create_generative_rhythm"
    /\ SumBag(sent.new) > 0
    /\ SumBag(sent.free) > SumBag(sent.new)

\* C7 as stated: a SetParam or a FreeVoice is only ever sent for an id that is live,
\* so the commands for an id come in the order CreateVoice, SetParam*, FreeVoice.
C7_CommandsOnlyToLive ==
    [][\A id \in Newly("set") \cup Newly("free") : id \in live]_vars

\* C7 amended: a SetParam is only ever sent for a live id; a FreeVoice is sent for a
\* live id, or by create_generative_rhythm for a band id of the current beat that was
\* never created; no id is sent FreeVoice again after it was freed.
C7_CommandsToLiveOrUncreatedBand ==
    [][/\ \A id \in Newly("set") : id \in live
       /\ \A id \in Newly("free") :
             \/ id \in live
             \/ /\ tool = "create_generative_rhythm"
                /\ Cnt(sent.new, id) = 0
                /\ \E k \in 1 .. 4 : id = potential_ids(loc.base_id, loc.beat)[k]]_vars

C7_Witness ==
    \E id \in DOMAIN sent.new :
        /\ Cnt(sent.set, id) >= 2
        /\ Cnt(sent.free, id) = 1
        /\ id \notin live

\* C8: a CreateVoice is never sent with an id that is live, so the voices live at
\* any moment have distinct ids.
C8_CreateNeverReusesLiveId ==
    [][\A id \in Newly("new") : id \notin live /\ Cnt(sent'.new, id) = Cnt(sent.new, id) + 1]_vars

C8_Witness == Cardinality(live) >= 3

\* C9: over all the beats of create_drum_pattern (4..32 beats) and of
\* create_generative_rhythm (4..240 beats), the kick, snare, hi-hat and accent id
\* bands are pairwise disjoint.
C9_BandsDisjoint ==
    pc = "banded" =>
        /\ (tool = "create_drum_pattern" => loc.n \in 4 .. 32)
        /\ (tool = "create_generative_rhythm" => loc.n \in 4 .. 240)
        /\ \A a, b \in DOMAIN loc.bands : a # b => loc.bands[a] \cap loc.bands[b] = {}

C9_Witness ==
    /\ pc = "banded"
    /\ tool = "create_generative_rhythm"
    /\ loc.n = 240
    /\ Cardinality(loc.bands.accent) = 240

RECURSIVE IntervalsUpTo(_, _)
\* the number of intervals of the first k tokens of the progression
IntervalsUpTo(chords, k) ==
    IF k = 0 THEN 0 ELSE Len(ChordIntervals(chords[k])) + IntervalsUpTo(chords, k - 1)

Arpeggio == tool = "create_chord_progression" /\ args.style = "arpeggio"

ExampleArpeggio ==
    /\ Arpeggio
    /\ loc.chords = << <<"C">>, <<"G">>, <<"A", "m">>, <<"F">> >>
    /\ args.tempo = 60
    /\ args.duration_per_chord = 4000

\* C10: in the arpeggio style a chord with n intervals is played as n create/free
\* pairs one after the other, each voice held for 0.9 * chord_duration / n and freed
\* before the 0.1 * chord_duration / n gap and the next create; "C-G-Am-F" at tempo
\* 60 with 4.0 beats per chord gives 12 pairs, each held for 1200 ms.
C10_ArpeggioPairs ==
    Arpeggio =>
        /\ Cardinality(live) <= 1
        /\ pc = "arp_free" =>
              /\ live = {loc.base_id + loc.node_counter - 1}
              /\ QEq(slept, <<9 * 60 * args.duration_per_chord,
                              10 * args.tempo * Len(loc.intervals)>>)
        /\ (pc = "arp_new" /\ loc.i > 0) =>
              /\ live = {}
              /\ QEq(slept, <<60 * args.duration_per_chord,
                              10 * args.tempo * Len(loc.intervals)>>)
        /\ (pc = "ch_next" /\ outcome = "running") =>
              /\ SumBag(sent.new) = IntervalsUpTo(loc.chords, loc.chord_idx)
              /\ SumBag(sent.free) = IntervalsUpTo(loc.chords, loc.chord_idx)
              /\ \A id \in DOMAIN sent.new : sent.new[id] = 1 /\ Cnt(sent.free, id) = 1
        /\ ExampleArpeggio =>
              /\ pc = "arp_free" => QEq(slept, Ms(1200))
              /\ outcome = "returned" => SumBag(sent.new) = 12 /\ SumBag(sent.free) = 12

C10_Witness ==
    /\ ExampleArpeggio
    /\ outcome = "returned"
    /\ SumBag(sent.new) = 12
    /\ SumBag(sent.free) = 12

----------------------------------------------------------------------------
(* The chord-token parser as a function of the token *)

\* the characters chord tokens are built from, and the longest token
TokenAlphabet == {"C", "A", "B", "b", "#", "m", "7", "H"}

MaxTokenLen == 3

TokenInputs == UNION {[1 .. n -> TokenAlphabet] : n \in 1 .. MaxTokenLen}

\* the state of a specification that applies one pure function of the tools
PureInit(t, p) ==
    /\ tool = t
    /\ pc = p
    /\ loc = [none |-> 0]
    /\ live = {}
    /\ sent = [new |-> EmptyBag, set |-> EmptyBag, free |-> EmptyBag]
    /\ slept = <<0, 1>>
    /\ exc = FALSE
    /\ outcome = "running"
    /\ cancel_requested = FALSE

InitParse ==
    /\ PureInit("create_chord_progression", "parse")
    /\ args \in [chord_name : TokenInputs]
    /\ now = 0

\* the body of "if chord_name:" up to the lookup of the intervals
parse_chord ==
    /\ At("create_chord_progression", "parse")
    /\ LET c == ParseChord(args.chord_name)
       IN loc' = [root_note |-> c.root_note, chord_type |-> c.chord_type,
                  intervals |-> ChordIntervals(args.chord_name)]
    /\ pc' = "parsed"
    /\ NoSend /\ NoSleep /\ Frame

NextParse == parse_chord

SpecParse == InitParse /\ [][NextParse]_vars

\* the keys of chord_types
ChordQualities ==
    {<<>>, <<"M">>, <<"m","a","j">>, <<"m">>, <<"m","i","n">>, <<"7">>, <<"M","7">>,
     <<"m","a","j","7">>, <<"m","7">>, <<"m","i","n","7">>, <<"d","i","m">>,
     <<"d","i","m","7">>, <<"a","u","g">>, <<"s","u","s","2">>, <<"s","u","s","4">>,
     <<"a","d","d","9">>, <<"a","d","d","1","1">>, <<"5">>}

\* C11: the root of a chord token is its first two characters when they are a name of
\* the note table, otherwise its first character; the rest is the quality; the
\* intervals are the major triad when the quality is not in the chord-type table;
\* "C" gives C and 0,4,7, "Am" gives A and 0,3,7, "Bb7" gives Bb and 0,4,7,10.
C11_ChordParser ==
    pc = "parsed" =>
        LET t == args.chord_name
            two == Len(t) >= 2 /\ SubSeq(t, 1, 2) \in DOMAIN note_to_semitone
        IN /\ Len(loc.root_note) = IF two THEN 2 ELSE 1
           /\ loc.root_note \o loc.chord_type = t
           /\ (loc.root_note \in DOMAIN note_to_semitone /\ loc.chord_type \notin ChordQualities)
                 => loc.intervals = <<0, 4, 7>>
           /\ t = <<"C">> => loc.root_note = <<"C">> /\ loc.intervals = <<0, 4, 7>>
           /\ t = <<"A", "m">> => loc.root_note = <<"A">> /\ loc.intervals = <<0, 3, 7>>
           /\ t = <<"B", "b", "7">> =>
                 loc.root_note = <<"B", "b">> /\ loc.intervals = <<0, 4, 7, 10>>

C11_Witness ==
    /\ pc = "parsed"
    /\ args.chord_name = <<"B", "b", "7">>
    /\ loc.root_note = <<"B", "b">>
    /\ loc.chord_type = <<"7">>

\* the grain ids in the tracked set of create_granular_texture
TrackedGrains == {loc.active_nodes[x].nid : x \in 1 .. Len(loc.active_nodes)}

\* C12: in create_granular_texture the tracked grains are the live ones; after the
\* expiry pass of a tick no tracked grain has an expiry at or before the tick's clock
\* sample; no grain is ever sent a second FreeVoice, and when the invocation ends
\* every grain created was sent exactly one.
C12_GrainFreedOnce ==
    tool = "create_granular_texture" =>
        /\ \A id \in DOMAIN sent.free : sent.free[id] = 1 /\ Cnt(sent.new, id) = 1
        /\ pc \in {"gr_test", "gr_amp", "gr_new", "gr_expire", "gr_sleep"} =>
              TrackedGrains = live
        /\ pc = "gr_sleep" =>
              \A x \in 1 .. Len(loc.active_nodes) : loc.active_nodes[x].end_time > 100 * now
        /\ (pc = "gr_finally" /\ loc.k = 1) => TrackedGrains = live
        /\ outcome \in {"returned", "raised"} =>
              /\ live = {}
              /\ \A id \in DOMAIN sent.new : Cnt(sent.free, id) = 1

\* an invocation that returned after freeing some grains on expiry and the rest in
\* the final flush
C12_Witness ==
    /\ tool = "create_granular_texture"
    /\ outcome = "returned"
    /\ Len(loc.active_nodes) >= 1
    /\ Cardinality(DOMAIN sent.new) > Len(loc.active_nodes)
    /\ \A id \in DOMAIN sent.new : Cnt(sent.free, id) = 1

\* C13: create_granular_texture clamps density to 0.1..1.0, grain_size to 0.01..0.5,
\* pitch_spread to 0.0..1.0 and duration to 1.0..30.0, and with those values it never
\* fails: no exception leaves its grain loop.
C13_GranularClampsAndSucceeds ==
    tool = "create_granular_texture" =>
        /\ args.density \in 1 .. 10
        /\ args.grain_size \in 10 .. 500
        /\ args.pitch_spread \in 0 .. 1000
        /\ args.duration \in 1000 .. 30000
        /\ ~exc
        /\ outcome # "raised"

----------------------------------------------------------------------------
(* The numeric clamp as a function of its input *)

\* the (lo, hi) pairs of the tools' clamps, in the integer units of the model:
\* tempo 60..240 and 40..180, beats 4..32, repeats 1..8, num_layers 1..5, duration
\* 1..30, 1..60, 5..120 and 10..120 s, rate 1..1000 hundredths of Hz, depth and
\* pitch_spread 0..1000 thousandths, density 1..10 tenths, grain_size 10..500 ms,
\* volume, detune and intensity 0..10 tenths
ClampRanges ==
    {<<60, 240>>, <<40, 180>>, <<4, 32>>, <<1, 8>>, <<1, 5>>, <<1, 30>>, <<1, 60>>,
     <<5, 120>>, <<10, 120>>, <<1, 1000>>, <<0, 1000>>, <<1, 10>>, <<10, 500>>, <<0, 10>>}

ClampInputs ==
    {-1000000, -5, 0, 1, 3, 4, 5, 8, 10, 11, 32, 33, 60, 61, 120, 180, 240, 241, 500,
     1000, 1001, 1000000}

InitClamp ==
    /\ PureInit("clamp", "clamp")
    /\ args \in [range : ClampRanges, x : ClampInputs, y : ClampInputs]
    /\ now = 0

\* max(lo, min(hi, x)) applied to two inputs
clamp ==
    /\ At("clamp", "clamp")
    /\ loc' = [x |-> Clamp(args.range[1], args.range[2], args.x),
               y |-> Clamp(args.range[1], args.range[2], args.y)]
    /\ pc' = "clamped"
    /\ NoSend /\ NoSleep /\ Frame

NextClamp == clamp

SpecClamp == InitClamp /\ [][NextClamp]_vars

\* C14: max(lo, min(hi, x)) lies in lo..hi for every input and does not decrease
\* when the input grows.
C14_ClampInRangeMonotonic ==
    pc = "clamped" =>
        /\ args.range[1] <= loc.x /\ loc.x <= args.range[2]
        /\ args.x <= args.y => loc.x <= loc.y

C14_Witness ==
    /\ pc = "clamped"
    /\ args.range = <<60, 240>>
    /\ args.x = 33 /\ loc.x = 60
    /\ args.y = 241 /\ loc.y = 240

RandomLfo == tool = "create_lfo_modulation" /\ args.waveform = "random"

\* the LFO cycle a tick taken at elapsed ms falls in
LfoCycle(elapsed, rate) == (elapsed * rate) \div 100000

\* C15: with waveform "random" a tick that is not the first tick of its LFO cycle
\* draws no new value, so the modulation value changes at most once per cycle.
C15_RandomDrawsOncePerCycle ==
    [][(/\ RandomLfo
        /\ pc = "lfo_test" /\ pc' = "lfo_value"
        /\ Cnt(sent.set, loc.node_id) > 0
        /\ LfoCycle(loc.elapsed, args.rate) = LfoCycle(loc'.elapsed, args.rate))
       => ~PhaseBelowStep(loc'.elapsed, args.rate)]_vars

\* C16: with waveform "random" every tick has a sampled value to send: the value is
\* bound when the SetParam is sent, and the run never fails for lack of one.
C16_RandomValueAlwaysBound ==
    RandomLfo =>
        /\ pc = "lfo_set" => loc.lfo_bound
        /\ ~exc
        /\ outcome # "raised"

----------------------------------------------------------------------------
(* The modulation target ranges of create_lfo_modulation as a function of depth *)

\* variant of target_info: the pan range is written with its bounds exchanged
target_info_pan_exchanged(target_param, depth) ==
    CASE target_param = "amplitude" ->
            [base_value |-> 1000, min_value |-> 1000 - depth, max_value |-> 1000]
      [] target_param = "filter" ->
            [base_value |-> 2000000, min_value |-> 200000,
             max_value |-> 200000 + 7800 * depth]
      [] target_param = "pan" ->
            [base_value |-> 0, min_value |-> 2 * depth, max_value |-> -2 * depth]
      [] OTHER ->
            [base_value |-> 880000, min_value |-> 440 * (2000 - depth),
             max_value |-> 440 * (2000 + depth)]

\* target_info = param_map.get(target_param, param_map["frequency"]); depth is in
\* thousandths and the three values are in 1/2000 of the parameter's unit
target_info(target_param, depth) ==
    CASE target_param = "amplitude" ->
            [base_value |-> 1000, min_value |-> 1000 - depth, max_value |-> 1000]
      [] target_param = "filter" ->
            [base_value |-> 2000000, min_value |-> 200000,
             max_value |-> 200000 + 7800 * depth]
      [] target_param = "pan" ->
            [base_value |-> 0, min_value |-> -2 * depth, max_value |-> 2 * depth]
      [] OTHER ->
            [base_value |-> 880000, min_value |-> 440 * (2000 - depth),
             max_value |-> 440 * (2000 + depth)]

\* "volume" stands for an unrecognized target
TargetInputs == {"frequency", "amplitude", "filter", "pan", "volume"}

DepthInputs == {-1000, 1, 230, 231, 999, 5000} \cup {100 * x : x \in 0 .. 10}

InitTargets ==
    /\ PureInit("create_lfo_modulation", "targets")
    /\ args \in [target_param : TargetInputs, depth : DepthInputs]
    /\ now = 0

\* depth = max(0.0, min(1.0, float(depth))); param_map; target_info
lfo_target ==
    /\ At("create_lfo_modulation", "targets")
    /\ LET depth == Clamp(0, 1000, args.depth)
       IN loc' = [depth |-> depth, target_info |-> target_info(args.target_param, depth)]
    /\ pc' = "targeted"
    /\ NoSend /\ NoSleep /\ Frame

NextTargets == lfo_target

SpecTargets == InitTargets /\ [][NextTargets]_vars

\* C17: for every modulation target, the fallback included, and every clamped depth,
\* min_value <= max_value (base_value may lie outside min_value..max_value).
C17_TargetMinAtMostMax ==
    pc = "targeted" =>
        /\ loc.depth \in 0 .. 1000
        /\ loc.target_info.min_value <= loc.target_info.max_value

\* the filter target at depth 0.1: base_value 1000 is above max_value 490
C17_Witness ==
    /\ pc = "targeted"
    /\ args.target_param = "filter"
    /\ loc.depth = 100
    /\ loc.target_info.min_value <= loc.target_info.max_value
    /\ loc.target_info.base_value > loc.target_info.max_value

----------------------------------------------------------------------------
(* create_generative_rhythm with a random source that always draws high *)

\* (style, intensity in tenths), duration in s and tempo of the runs
HighDrawStyleInputs == {<<"minimal", 10>>, <<"jazz", 5>>, <<"drone", 0>>}

HighDrawDurationInputs == {64, 17}

HighDrawTempoInputs == {60}

\* the state in which the beat loop is entered, as Invoke_create_generative_rhythm
\* leaves it, with every later draw of random.random() at its highest value
InitHighDraws ==
    /\ tool = "create_generative_rhythm"
    /\ pc = "rh_evolve"
    /\ now \in StartClocks
    /\ live = {}
    /\ sent = [new |-> EmptyBag, set |-> EmptyBag, free |-> EmptyBag]
    /\ slept = <<0, 1>>
    /\ exc = FALSE
    /\ outcome = "running"
    /\ cancel_requested = FALSE
    /\ \E si \in HighDrawStyleInputs, duration \in HighDrawDurationInputs,
          tempo \in HighDrawTempoInputs :
        LET d == rhythm_duration(duration)
            t == rhythm_tempo(tempo)
            x == Clamp(0, 10, si[2])
        IN /\ args = [style |-> si[1], duration |-> d, tempo |-> t, intensity |-> x,
                      style_params |-> style_params(si[1], x),
                      num_beats |-> num_beats(d, t), start |-> now, rng |-> "high"]
           /\ loc = [base_id |-> get_node_id(now), beat |-> 0, k |-> 1,
                     patterns |-> initial_patterns(si[1], Zeros16, Zeros16, Zeros16)]

NextHighDraws ==
    rh_evolve \/ rh_kick \/ rh_snare \/ rh_hihat \/ rh_accent \/ rh_sleep \/ rh_free

SpecHighDraws == InitHighDraws /\ [][NextHighDraws]_vars

\* C18: when the variation draw of create_generative_rhythm is never below
\* variation_rate, the kick, snare and hihat patterns equal their initial state
\* after every beat, the 16th, 32nd, 48th and 64th included.
C18_PatternsUnchangedWithoutVariation ==
    (tool = "create_generative_rhythm" /\ HighDraws) =>
        loc.patterns = initial_patterns(args.style, Zeros16, Zeros16, Zeros16)

C18_Witness ==
    /\ tool = "create_generative_rhythm"
    /\ HighDraws
    /\ outcome = "returned"
    /\ loc.beat = 64
    /\ args.style_params.variation_rate > 0
    /\ loc.patterns = initial_patterns(args.style, Zeros16, Zeros16, Zeros16)

\* C19: the wait create_granular_texture requests between two grains is
\* 1 / (density * 20) seconds, 50 ms at density 1.0 and 500 ms at density 0.1,
\* whatever the grain size.
C19_GrainInterval ==
    (tool = "create_granular_texture" /\ pc = "gr_test" /\ SumBag(sent.new) > 0) =>
        /\ QEq(<<slept[1] * 2 * args.density, slept[2]>>, Ms(1000))
        /\ args.density = 10 => QEq(slept, Ms(50))
        /\ args.density = 1 => QEq(slept, Ms(500))

C19_Witness ==
    /\ tool = "create_granular_texture"
    /\ pc = "gr_test"
    /\ SumBag(sent.new) >= 2
    /\ args.density = 10
    /\ args.grain_size = 10
    /\ QEq(slept, Ms(50))

\* C20: once the caller has asked for cancellation the invocation starts no further
\* sleep, and it ends with every voice it created released.
C20_CancellationObserved ==
    [][/\ (cancel_requested /\ outcome = "running") => ~(now' > now /\ pc # "lfo_start")
       /\ (cancel_requested' /\ outcome' # "running") => live' = {}]_vars

----------------------------------------------------------------------------
(* The effects argument of play_synth and create_layered_synth *)

\* the keys in the order the tools read them
EffectOrder == <<"reverb", "delay", "distortion", "filter">>

\* what a key of the effects dict may hold: nothing, a value float() rejects, or a
\* number in tenths (0.5 and 2.0)
EffectValueInputs == {<<"absent", 0>>, <<"bad", 0>>, <<"num", 5>>, <<"num", 20>>}

EffectDicts ==
    [reverb : EffectValueInputs, delay : EffectValueInputs,
     distortion : EffectValueInputs, filter : EffectValueInputs]

\* the effects argument: None, a string that is not JSON, JSON that is not a dict,
\* or a dict
EffectsInputs ==
    {[kind |-> k, dict |-> [reverb |-> <<"absent", 0>>, delay |-> <<"absent", 0>>,
                            distortion |-> <<"absent", 0>>, filter |-> <<"absent", 0>>]] :
        k \in {"none", "invalid_json", "non_dict"}}
    \cup {[kind |-> "dict", dict |-> d] : d \in EffectDicts}

RECURSIVE ParsedEffects(_, _, _)
\* the (effect, value) pairs read from keys i..n of the dict inside the try: a key
\* that is present is converted with float() and clamped to 0..1; the first value
\* float() rejects raises, and the except clause abandons the keys after it
ParsedEffects(d, i, n) ==
    IF i > n THEN <<>>
    ELSE LET v == d[EffectOrder[i]]
         IN IF v[1] = "bad" THEN <<>>
            ELSE IF v[1] = "absent" THEN ParsedEffects(d, i + 1, n)
            ELSE << <<EffectOrder[i], Clamp(0, 10, v[2])>> >> \o ParsedEffects(d, i + 1, n)

\* play_synth: the effect parameters appended to params
synth_effect_params(effects) ==
    IF effects.kind = "dict" THEN ParsedEffects(effects.dict, 1, 4) ELSE <<>>

\* create_layered_synth: reverb, delay and distortion start at 0.0 and are added to
\* the parameters of a layer when > 0.0
layered_effect_params(effects) ==
    IF effects.kind = "dict"
    THEN SelectSeq(ParsedEffects(effects.dict, 1, 3), LAMBDA e : e[2] > 0)
    ELSE <<>>

InitEffects ==
    /\ now \in StartClocks
    /\ live = {}
    /\ sent = [new |-> EmptyBag, set |-> EmptyBag, free |-> EmptyBag]
    /\ slept = <<0, 1>>
    /\ exc = FALSE
    /\ outcome = "running"
    /\ cancel_requested = FALSE
    /\ \E effects \in EffectsInputs :
        \/ /\ tool = "play_synth"
           /\ pc = "syn_effects"
           /\ args = [duration |-> 2000, effects |-> effects]
           /\ loc = [node_id |-> get_node_id(now)]
        \/ /\ tool = "create_layered_synth"
           /\ pc = "lay_effects"
           /\ args = [num_layers |-> 3, duration |-> 5000, effects |-> effects]
           /\ loc = [base_id |-> get_node_id(now), i |-> 0, nodes |-> <<>>, k |-> 1]

\* play_synth: "if effects: try: ... except (JSONDecodeError, ValueError, TypeError): pass"
syn_effects ==
    /\ At("play_synth", "syn_effects")
    /\ loc' = [node_id |-> loc.node_id, params |-> synth_effect_params(args.effects)]
    /\ pc' = "syn_new"
    /\ NoSend /\ NoSleep /\ Frame

\* create_layered_synth: the same try around the three float() conversions
lay_effects ==
    /\ At("create_layered_synth", "lay_effects")
    /\ loc' = [base_id |-> loc.base_id, i |-> loc.i, nodes |-> loc.nodes, k |-> loc.k,
               params |-> layered_effect_params(args.effects)]
    /\ pc' = "lay_new"
    /\ NoSend /\ NoSleep /\ Frame

NextEffects ==
    \/ syn_effects \/ syn_new \/ syn_sleep \/ syn_free
    \/ lay_effects \/ lay_new \/ lay_sleep \/ lay_finally

SpecEffects == InitEffects /\ [][NextEffects]_vars

\* the effect keys a tool reads
EffectKeys(t) ==
    IF t = "play_synth" THEN {"reverb", "delay", "distortion", "filter"}
    ELSE {"reverb", "delay", "distortion"}

\* C21: with a malformed effects argument play_synth and create_layered_synth do not
\* fail and run their create/free lifecycle; an effect is among the CreateVoice
\* parameters exactly when its value is a number, whatever the other values are.
C21_MalformedEffectOmittedOthersApplied ==
    ("effects" \in DOMAIN args /\ "params" \in DOMAIN loc) =>
        /\ ~exc /\ outcome \in {"running", "returned"}
        /\ outcome = "returned" => (live = {} /\ SumBag(sent.new) >= 1 /\ EveryCreateFreed)
        /\ \A key \in EffectKeys(tool) :
              LET v == args.effects.dict[key]
                  applied == \E x \in 1 .. Len(loc.params) :
                                loc.params[x] = <<key, Clamp(0, 10, v[2])>>
                  named == \E x \in 1 .. Len(loc.params) : loc.params[x][1] = key
              IN IF args.effects.kind = "dict" /\ v[1] = "num" THEN applied ELSE ~named

\* C22: create_generative_rhythm sends no CreateVoice at a clock value at or after
\* the clock at invocation (args.start) plus the clamped duration.
C22_RhythmCreatesBeforeDeadline ==
    [][(tool = "create_generative_rhythm" /\ Newly("new") # {}) =>
          now < args.start + args.duration * 1000]_vars

----------------------------------------------------------------------------
(* The deadline loops when the first loop test comes late *)

\* the loop tests of create_lfo_modulation and create_granular_texture
DeadlineTests == {"lfo_test", "gr_test"}

DeadlineTicks == {"lfo_value", "gr_amp"}

DeadlineCleanup == {"lfo_finally", "gr_finally", "done"}

\* the thread is not scheduled between end_time = start_time + duration and the
\* first evaluation of "while time.time() < end_time", for the whole duration
late_first_test ==
    /\ tool \in {"create_lfo_modulation", "create_granular_texture"}
    /\ pc \in DeadlineTests
    /\ outcome = "running"
    /\ SumBag(sent.set) = 0
    /\ tool = "create_granular_texture" => SumBag(sent.new) = 0
    /\ now < loc.end_time
    /\ now' = loc.end_time
    /\ NoSend /\ Frame /\ UNCHANGED <<pc, loc, slept>>

NextLate == Step \/ late_first_test

SpecLate == Init /\ [][NextLate]_vars

\* C23: in create_lfo_modulation and create_granular_texture a tick begins only
\* from a loop test whose clock sample is strictly before end_time; a test at or
\* after end_time goes to the cleanup, after which no tick begins and no
\* CreateVoice or SetParam is sent; when the first test is already late no tick runs.
C23_TickOnlyBeforeDeadline ==
    [][(tool \in {"create_lfo_modulation", "create_granular_texture"}) =>
          /\ (pc' \in DeadlineTicks /\ pc' # pc) => (pc \in DeadlineTests /\ now < loc.end_time)
          /\ (pc \in DeadlineTests /\ now >= loc.end_time) =>
                (pc' \in DeadlineCleanup /\ sent'.set = sent.set /\ sent'.new = sent.new)
          /\ pc \in DeadlineCleanup =>
                (pc' \in DeadlineCleanup /\ Newly("set") = {} /\ Newly("new") = {})]_vars

\* the first test of an LFO run was late: the voice is freed, no parameter was set
C23_Witness ==
    /\ tool = "create_lfo_modulation"
    /\ outcome = "returned"
    /\ ~exc
    /\ SumBag(sent.set) = 0
    /\ SumBag(sent.free) = 1
    /\ now = loc.end_time

\* the style names create_generative_rhythm documents
RhythmStyles == {"minimal", "techno", "glitch", "jazz", "ambient"}

\* C24: create_generative_rhythm with a style name outside RhythmStyles enters its
\* beat loop with the coefficients and the kick, snare and hihat patterns of "minimal".
C24_UnknownStyleIsMinimal ==
    (tool = "create_generative_rhythm" /\ args.style \notin RhythmStyles) =>
        /\ args.style_params = style_params("minimal", args.intensity)
        /\ (pc = "rh_evolve" /\ loc.beat = 0) =>
              loc.patterns = initial_patterns("minimal", Zeros16, Zeros16, Zeros16)

\* C25: a create_chord_progression run whose style is none of pad, staccato,
\* arpeggio, power takes, from every state, the step the pad block takes from that
\* state: the same ids, frequencies, amplitudes and pans in /s_new, the same waits,
\* the same /n_free.
C25_UnknownVoicingIsPad ==
    [][(tool = "create_chord_progression" /\ StyleBranch(args.style) = "else") =>
          \/ ch_next_in("pad") \/ ch_rest \/ ch_new_in("pad")
          \/ ch_hold_in("pad") \/ ch_free_in("pad")]_vars

\* Bb7 in an unrecognized style, after the hold: four voices, the inner ones softer
C25_Witness ==
    /\ tool = "create_chord_progression"
    /\ args.style = "strum"
    /\ pc = "ch_free"
    /\ Len(loc.voices) = 4
    /\ loc.voices[1].amp = 30 /\ loc.voices[2].amp = 20
    /\ loc.voices[2].pan = <<-80, 3>>
    /\ QEq(slept, chord_duration)

\* the voices of the chord in hand are those of expected (interval, amp pairs), all
\* created at the clock value at which the chord began, held for chord_duration and
\* freed before the next chord
PowerChord(expected) ==
    /\ pc = "ch_hold" =>
          /\ now = loc.chord_start
          /\ Len(loc.voices) = Len(expected)
          /\ \A x \in 1 .. Len(expected) :
                /\ loc.voices[x].semitones = loc.root_semitone + expected[x][1] - 9
                /\ loc.voices[x].amp = expected[x][2]
          /\ live = {loc.voices[x].id : x \in 1 .. Len(loc.voices)}
    /\ pc = "ch_free" =>
          /\ QEq(slept, chord_duration)
          /\ now = loc.chord_start + CeilMs(chord_duration)
    /\ pc = "ch_next" => live = {}

\* in power style with a chord in hand (recognized root)
PowerChordInHand ==
    /\ tool = "create_chord_progression"
    /\ args.style = "power"
    /\ outcome = "running"
    /\ pc \in {"ch_hold", "ch_free"} \/ (pc = "ch_next" /\ ~exc)

C27_UnknownRootRests ==
    [][(tool = "create_chord_progression" /\ pc \in {"ch_next", "ch_rest"}
           /\ loc.chord_idx < Len(loc.chords)
           /\ ChordIntervals(loc.chords[loc.chord_idx + 1]) = <<>>) =>
          /\ sent' = sent
          /\ loc'.node_counter = loc.node_counter
          /\ pc' \in {"ch_rest", "ch_next"}
          /\ pc = "ch_rest" =>
                /\ QEq(slept', chord_duration) /\ now' = now + CeilMs(chord_duration)
                /\ loc'.chord_idx = loc.chord_idx + 1]_vars

\* "Bb7-H--C5" as pad: C5 is played after the two rests, with the ids after Bb7's
C27_Witness ==
    /\ tool = "create_chord_progression"
    /\ args.style = "pad"
    /\ pc = "ch_hold"
    /\ loc.chord_idx = 3
    /\ ChordIntervals(loc.chords[2]) = <<>> /\ loc.chords[3] = <<>>
    /\ Len(loc.voices) = 2
    /\ loc.voices[1].id = loc.base_id + 4
    /\ sent.new[loc.base_id + 4] = 1

\* C28: the wait create_generative_rhythm requests after a beat is beat_duration
\* (60 / tempo s) when the step, beat mod 16, is even, and
\* beat_duration + beat_duration * swing * 0.5 when it is odd, where swing is the
\* style's coefficient scaled by 0.7 + intensity * 0.6 and capped at 1.0.
C28_SwingOnOddSteps ==
    [][(tool = "create_generative_rhythm" /\ pc = "rh_sleep" /\ pc' = "rh_free") =>
          LET swing == Min(100000, styles(args.style).swing * (70 + 6 * args.intensity))
              step == loc.beat % 16
          IN /\ IF step % 2 = 1
                THEN slept'[1] * args.tempo * 10 = slept'[2] * 3 * (200000 + swing)
                ELSE slept'[1] * args.tempo = slept'[2] * 60000
             /\ now' = now + CeilMs(slept')]_vars

\* jazz at intensity 0.5 and 60 BPM: swing 0.7, the wait after beat 1 is 1.35 s
C28_Witness ==
    /\ tool = "create_generative_rhythm"
    /\ args.style = "jazz" /\ args.intensity = 5 /\ args.tempo = 60
    /\ pc = "rh_free"
    /\ loc.beat = 1
    /\ QEq(slept, <<1350, 1>>)
    /\ now = args.start + 2350

----------------------------------------------------------------------------
(* An exception that arrives between a send and the statement after it *)

\* create_layered_synth: send_message("/s_new", ...) has returned and an
\* asynchronous exception (KeyboardInterrupt) is raised before nodes.append(node_id)
lay_new_interrupted ==
    /\ At("create_layered_synth", "lay_new")
    /\ SendNew(loc.base_id + loc.i)
    /\ pc' = "lay_finally"
    /\ exc' = TRUE
    /\ NoSleep /\ UNCHANGED <<tool, args, loc, outcome, cancel_requested>>

\* create_granular_texture: the same before active_nodes[grain_id] = grain_end_time
gr_new_interrupted ==
    /\ At("create_granular_texture", "gr_new")
    /\ SendNew(loc.grain_id)
    /\ pc' = "gr_finally"
    /\ exc' = TRUE
    /\ NoSleep /\ UNCHANGED <<tool, args, loc, outcome, cancel_requested>>

\* create_ambient_soundscape: the same before active_nodes.append(event_id)
amb_new_interrupted ==
    /\ At("create_ambient_soundscape", "amb_new")
    /\ SendNew(EventId(loc.base_id, loc.i))
    /\ pc' = "amb_finally"
    /\ exc' = TRUE
    /\ NoSleep /\ UNCHANGED <<tool, args, loc, outcome, cancel_requested>>

NextInterrupt == Step \/ lay_new_interrupted \/ gr_new_interrupted \/ amb_new_interrupted

SpecInterrupt == Init /\ [][NextInterrupt]_vars

\* the ids in the list or dict the tool's finally block walks
TrackedIds ==
    CASE tool = "create_layered_synth" -> {loc.nodes[x] : x \in 1 .. Len(loc.nodes)}
      [] tool = "create_granular_texture" -> TrackedGrains
      [] tool = "create_ambient_soundscape" ->
            {loc.active_nodes[x] : x \in 1 .. Len(loc.active_nodes)}

\* C29: in create_layered_synth, create_granular_texture and
\* create_ambient_soundscape every voice that was sent CreateVoice and not yet
\* FreeVoice is in the tracked set, at every point, and none is left when the
\* invocation has ended.
C29_SentVoicesAreTracked ==
    tool \in {"create_layered_synth", "create_granular_texture", "create_ambient_soundscape"} =>
        /\ live \subseteq TrackedIds
        /\ outcome \in {"returned", "raised"} => live = {}

\* C30: in create_granular_texture no grain is created while a tracked grain is
\* past its expiry (the expired grains are freed first), and at every moment each
\* live grain was created less than actual_grain_size before the current clock.
C30_LiveGrainsWithinOneDuration ==
    [][(tool = "create_granular_texture") =>
          /\ Newly("new") # {} =>
                \A x \in 1 .. Len(loc.active_nodes) : loc.active_nodes[x].end_time > 100 * now
          /\ \A x \in 1 .. Len(loc'.active_nodes) :
                loc'.active_nodes[x].nid \in live' =>
                    loc'.active_nodes[x].end_time > 100 * now']_vars

----------------------------------------------------------------------------
(* create_generative_rhythm over several evolution points *)

\* (style, intensity in tenths), duration in s and tempo of the runs
EvolveStyleInputs == {<<"minimal", 10>>, <<"jazz", 5>>}

EvolveDurationInputs == {33}

EvolveTempoInputs == {60}

\* the state in which the beat loop is entered, as Invoke_create_generative_rhythm
\* leaves it; the hit and accent draws are the highest value, the variation draw is free
InitEvolve ==
    /\ tool = "create_generative_rhythm"
    /\ pc = "rh_evolve"
    /\ now \in StartClocks
    /\ live = {}
    /\ sent = [new |-> EmptyBag, set |-> EmptyBag, free |-> EmptyBag]
    /\ slept = <<0, 1>>
    /\ exc = FALSE
    /\ outcome = "running"
    /\ cancel_requested = FALSE
    /\ \E si \in EvolveStyleInputs, duration \in EvolveDurationInputs,
          tempo \in EvolveTempoInputs :
        LET d == rhythm_duration(duration)
            t == rhythm_tempo(tempo)
            x == Clamp(0, 10, si[2])
        IN /\ args = [style |-> si[1], duration |-> d, tempo |-> t, intensity |-> x,
                      style_params |-> style_params(si[1], x),
                      num_beats |-> num_beats(d, t), start |-> now, rng |-> "high_hits"]
           /\ loc = [base_id |-> get_node_id(now), beat |-> 0, k |-> 1,
                     patterns |-> initial_patterns(si[1], Zeros16, Zeros16, Zeros16)]

NextEvolve ==
    rh_evolve \/ rh_kick \/ rh_snare \/ rh_hihat \/ rh_accent \/ rh_sleep \/ rh_free

SpecEvolve == InitEvolve /\ [][NextEvolve]_vars

\* a 16-step row of 0 and 1
BinaryRow(row) == DOMAIN row = 1 .. 16 /\ \A i \in 1 .. 16 : row[i] \in {0, 1}

----------------------------------------------------------------------------
(* get_node_id at two clock samples *)

\* the first clock sample, in ms
NodeIdClockInputs ==
    {0, 5, 9, 10, 50000, 77777, 99990, 99999, 100000, 999995, 1000000, 1234567}

\* the time between the two samples, in ms: 0.01 s to 99.99 s, and outside of it
NodeIdGapInputs == {0, 5, 10, 15, 1000, 10000, 99985, 99990, 100000}

InitNodeIds ==
    /\ PureInit("get_node_id", "get_node_id")
    /\ args \in [t1 : NodeIdClockInputs, gap : NodeIdGapInputs]
    /\ now = 0

\* base_id = get_node_id() in two invocations, at the clock values t1 and t1 + gap
node_ids ==
    /\ At("get_node_id", "get_node_id")
    /\ loc' = [id1 |-> get_node_id(args.t1), id2 |-> get_node_id(args.t1 + args.gap)]
    /\ pc' = "seeded"
    /\ NoSend /\ NoSleep /\ Frame

NextNodeIds == node_ids

SpecNodeIds == InitNodeIds /\ [][NextNodeIds]_vars

\* C32: get_node_id is floor(100 t) mod 10000 + 1000: its result is in 1000..10999,
\* and two clock samples at least 0.01 s and at most 99.99 s apart give different ids.
C32_NodeIdRangeAndDrift ==
    pc = "seeded" =>
        LET cs == args.t1 \div 10
        IN /\ loc.id1 = cs - 10000 * (cs \div 10000) + 1000
           /\ loc.id1 \in 1000 .. 10999 /\ loc.id2 \in 1000 .. 10999
           /\ (args.gap >= 10 /\ args.gap <= 99990) => loc.id1 # loc.id2

\* samples 99.99 s apart, the second one past the wrap of the ids
C32_Witness ==
    /\ pc = "seeded"
    /\ args.t1 = 99999 /\ args.gap = 99990
    /\ loc.id1 = 10999 /\ loc.id2 = 10998

----------------------------------------------------------------------------
(* create_sequence with a pattern of more than 100 notes *)

\* the longest pattern of the runs, in notes
LongPatternLen == 101

\* "CE." and "CCC...C" (no "-": one note per character)
LongPatternInputs == { <<"C","E",".">>, [i \in 1 .. LongPatternLen |-> "C"] }

LongRepeatsInputs == {2, 8}

\* the state in which the loops are entered, as Invoke_create_sequence leaves it
InitLongSequence ==
    /\ tool = "create_sequence"
    /\ pc = "seq_next"
    /\ now \in StartClocks
    /\ live = {}
    /\ sent = [new |-> EmptyBag, set |-> EmptyBag, free |-> EmptyBag]
    /\ slept = <<0, 1>>
    /\ exc = FALSE
    /\ outcome = "running"
    /\ cancel_requested = FALSE
    /\ \E pattern \in LongPatternInputs, repeats \in LongRepeatsInputs :
        /\ args = [tempo |-> Clamp(60, 240, 240), repeats |-> Clamp(1, 8, repeats)]
        /\ loc = [base_id |-> get_node_id(now), repeat |-> 0, i |-> 0,
                  structured_notes |-> structured_notes(pattern)]

NextLongSequence == seq_next \/ seq_new \/ seq_sleep \/ seq_free \/ seq_rest

SpecLongSequence == InitLongSequence /\ [][NextLongSequence]_vars

\* C33: within one create_sequence invocation the ids base + repeat * 100 + i sent
\* CreateVoice are pairwise distinct over all repeats and note positions, whatever
\* the length of the pattern: no id is sent CreateVoice twice.
C33_SequenceIdsDistinct ==
    tool = "create_sequence" => \A id \in DOMAIN sent.new : sent.new[id] <= 1

\* the ids of the voices created for the token in hand
ChordVoiceIds == {loc.voices[x].id : x \in 1 .. Len(loc.voices)}

\* C34: in create_chord_progression a voice is created only while every live voice
\* belongs to the token in hand, no voice is live when the next token begins, and
\* the waits requested for a token (loc.waited) add up to chord_duration; in
\* staccato all voices are freed after 25% of it, before the remaining wait.
C34_ChordFreedAndFullWait ==
    [][(tool = "create_chord_progression") =>
          /\ Newly("new") # {} => live \subseteq ChordVoiceIds
          /\ (pc' = "ch_next" /\ pc # "ch_next") =>
                (live' = {} /\ QEq(loc'.waited, chord_duration))
          /\ pc' = "ch_tail" =>
                (live' = {} /\ QEq(loc'.waited, Scale(chord_duration, 25, 100)))]_vars

\* a triad played as arpeggio at 180 BPM, one beat per chord: 333 1/3 ms in all
C34_Witness ==
    /\ tool = "create_chord_progression"
    /\ args.style = "arpeggio" /\ args.tempo = 180
    /\ pc = "ch_next"
    /\ loc.chord_idx = 1
    /\ Len(loc.voices) = 3
    /\ live = {}
    /\ loc.waited = <<1000, 3>>

\* C35: in create_ambient_soundscape the drone is the first voice created; an event
\* voice is created at a clock value strictly before end_time, with the drone live
\* and a hold of at most end_time minus that clock value; when no exception is
\* pending the drone is sent FreeVoice only at or after end_time, and the tool
\* returns only at or after end_time.
C35_DroneHeldToDeadline ==
    [][(tool = "create_ambient_soundscape") =>
          /\ Newly("new") # {} =>
                IF pc = "amb_bg"
                THEN sent.new = EmptyBag /\ Newly("new") = {loc.base_id}
                ELSE /\ now < loc.end_time
                     /\ loc.base_id \in live
                     /\ loc.event_dur > 0 /\ loc.event_dur <= loc.end_time - now
          /\ pc = "amb_hold" => QEq(slept', Ms(loc.event_dur))
          /\ (loc.base_id \in Newly("free") /\ ~exc) => now >= loc.end_time
          /\ (outcome' = "returned" /\ outcome # "returned") =>
                (now >= loc.end_time /\ loc.base_id \notin live')]_vars

\* an event that starts late is held for what remains of the duration, under the drone
C35_Witness ==
    /\ tool = "create_ambient_soundscape"
    /\ pc = "amb_hold"
    /\ loc.base_id \in live
    /\ EventId(loc.base_id, loc.i) \in live
    /\ loc.event_dur = loc.end_time - now
    /\ loc.event_dur < event_duration(args.mood)[1]

----------------------------------------------------------------------------
(* The number of beats of create_generative_rhythm *)

\* the duration (s) and tempo (BPM) arguments: below, at, inside and above the clamps
BeatsDurationInputs == {3, 5, 6, 17, 60, 61, 64, 120, 130}

BeatsTempoInputs == {50, 60, 61, 90, 120, 238, 240, 250}

InitBeats ==
    /\ PureInit("create_generative_rhythm", "count_beats")
    /\ args \in [duration : BeatsDurationInputs, tempo : BeatsTempoInputs]
    /\ now = 0

\* the clamps of duration and tempo, then num_beats
count_beats ==
    /\ At("create_generative_rhythm", "count_beats")
    /\ loc' = [duration |-> rhythm_duration(args.duration),
               tempo |-> rhythm_tempo(args.tempo),
               num_beats |-> num_beats(rhythm_duration(args.duration),
                                       rhythm_tempo(args.tempo))]
    /\ pc' = "counted"
    /\ NoSend /\ NoSleep /\ Frame

NextBeats == count_beats

SpecBeats == InitBeats /\ [][NextBeats]_vars

\* C36: create_generative_rhythm plays floor(duration / beat_duration) beats,
\* beat_duration = 60 / tempo, for every clamped duration in 5..120 s and tempo in
\* 60..240 BPM.
C36_BeatsCoverDuration ==
    pc = "counted" =>
        /\ loc.duration \in 5 .. 120 /\ loc.tempo \in 60 .. 240
        /\ loc.num_beats = (loc.duration * loc.tempo) \div 60

----------------------------------------------------------------------------
(* Termination *)

\* the tool body runs on, statement after statement: a sleep lasts at least the time
\* requested and ends, a send does not fail
SpecFair == Init /\ [][Step]_vars /\ WF_vars(Step)

\* C37: every invocation comes to its end by returning, with every voice it created
\* sent FreeVoice.
C37_EveryInvocationReturnsFreed ==
    <>(outcome = "returned" /\ live = {} /\ EveryCreateFreed)

----------------------------------------------------------------------------
(* Two invocations on the event loop of one server process *)

\* the statements of a tool body that send a command or wait, in order: play_synth,
\* create_lfo_modulation with two ticks, create_drum_pattern with two hits
TaskBodies ==
    { <<"s_new", "sleep", "n_free">>,
      <<"s_new", "n_set", "sleep", "n_set", "sleep", "n_free">>,
      <<"s_new", "s_new", "sleep", "n_free", "n_free">> }

\* variant of SuspendsAt: the waits are awaited sleeps, which hand the thread back
SuspendsAt_sleep(stmt) == stmt = "sleep"

\* whether the coroutine gives the thread back to the event loop at stmt: the tools
\* are "async def" with no await, and time.sleep blocks the thread
SuspendsAt(stmt) == FALSE

\* two tool calls are pending on the loop; loc.log holds, for each command sent on
\* sc_client, the invocation (1 or 2) that sent it
InitLoop ==
    /\ tool = "event_loop"
    /\ pc = "loop"
    /\ args \in [body : [1 .. 2 -> TaskBodies]]
    /\ loc = [cur |-> 0, at |-> <<0, 0>>, log |-> <<>>]
    /\ now \in StartClocks
    /\ live = {}
    /\ sent = [new |-> EmptyBag, set |-> EmptyBag, free |-> EmptyBag]
    /\ slept = <<0, 1>>
    /\ exc = FALSE
    /\ outcome = "running"
    /\ cancel_requested = FALSE

\* the loop runs or resumes a coroutine that has not finished
loop_resume ==
    /\ At("event_loop", "loop")
    /\ \E t \in 1 .. 2 :
        /\ loc.at[t] < Len(args.body[t])
        /\ loc' = [loc EXCEPT !.cur = t]
    /\ pc' = "task"
    /\ NoSend /\ NoSleep /\ Frame

\* the running coroutine executes its next statement and keeps the thread unless it
\* has finished or the statement suspends it
task_step ==
    /\ At("event_loop", "task")
    /\ LET t == loc.cur
           stmt == args.body[t][loc.at[t] + 1]
           finished == loc.at[t] + 1 = Len(args.body[t])
       IN /\ loc' = [loc EXCEPT !.at[t] = @ + 1,
                                !.log = IF stmt = "sleep" THEN @ ELSE Append(@, t),
                                !.cur = IF finished \/ SuspendsAt(stmt) THEN 0 ELSE t]
          /\ pc' = IF finished \/ SuspendsAt(stmt) THEN "loop" ELSE "task"
          /\ IF stmt = "sleep" THEN Sleep(Ms(100)) ELSE NoSleep
    /\ NoSend /\ Frame

NextLoop == loop_resume \/ task_step

SpecLoop == InitLoop /\ [][NextLoop]_vars

====
